---------------------------- MODULE Spec2Model ----------------------------
(***************************************************************************)
(* Conversation graph of the MoneyEZ assistant: rag_decision ->            *)
(* (generate_query -> retrieve ->) agent <-> tools -> END, compiled with a *)
(* MemorySaver checkpointer and invoked by receive_message_endpoint.       *)
(*                                                                         *)
(* Text is a sequence of characters.  A character is a short string;       *)
(* Vietnamese letters are written in Telex ("ee" is e-circumflex, "as" is  *)
(* a-acute, "uw" is u-horn, "dd" is d-stroke), upper case as the capital.  *)
(***************************************************************************)
EXTENDS Integers, Sequences, FiniteSets, TLC

VARIABLES
    checkpoint,   \* MemorySaver: thread_id -> persisted channel values
    state,        \* channel values of the invocation in flight
    cfg,          \* run configuration of the invocation in flight
    pc,           \* next node of the invocation in flight, or its outcome
    path,         \* nodes run so far by the invocation in flight
    ret,          \* delta returned by the node executed last
    executed,     \* call id -> number of times the tool registry ran it
    nextId,       \* number of tool-call ids the language model has issued
    prompt,       \* message sequence last sent to the language model
    response,     \* last response of receive_message_endpoint
    invocations,  \* number of graph invocations started
    searches,     \* what each retriever call of the invocation in flight met
    adapter,      \* what make_retriever did for the invocation in flight
    userId,       \* the module-level userId of add_langgraph_route
    message_obj,  \* the parsed request of the invocation in flight
    backend,      \* requests the tools sent to the finance backend and to
                  \* their language model
    node_input,   \* messages and queries of the state object handed to the
                  \* node executed last, as that node left them
    document_metadata,  \* vectordb.document_metadata: document id -> entry
    points,       \* the Qdrant collection: document id -> number of chunks
    temp_files,   \* temporary files on disk
    api_call,     \* the knowledge or suggestion request served last and
                  \* what its calls met
    api_response  \* the response to that request

\* the variables of the knowledge and suggestion routes
api_vars == <<document_metadata, points, temp_files, api_call, api_response>>

vars == <<checkpoint, state, cfg, pc, path, ret, executed, nextId, prompt,
          response, invocations, searches, adapter, userId, message_obj,
          backend, node_input,
          api_vars>>

-----------------------------------------------------------------------------
(* Bounds of the model *)

MaxInvocations == 2     \* requests served in one behaviour
MaxCallIds == 2         \* tool calls the language model may request in all
MaxTextLen == 3         \* length of the user texts drawn for the node checks
MaxWords == 3           \* words of the user texts drawn for query generation

-----------------------------------------------------------------------------
(* Text primitives (Python str) *)

RECURSIVE Concat(_)
Concat(ss) == IF ss = <<>> THEN <<>> ELSE Head(ss) \o Concat(Tail(ss))

\* str.lower() on one character
LowerChar(c) ==
    CASE c = "N" -> "n"
      [] c = "EE" -> "ee"
      [] c = "V" -> "v"
      [] c = "A" -> "a"
      [] c = "Y" -> "y"
      [] c = "X" -> "x"
      [] c = "I" -> "i"
      [] c = "H" -> "h"
      [] OTHER -> c

Lower(s) == [i \in 1..Len(s) |-> LowerChar(s[i])]

\* sub in s
Contains(s, sub) ==
    \E i \in 0..(Len(s) - Len(sub)) : SubSeq(s, i + 1, i + Len(sub)) = sub

IsSpace(c) == c \in {" ", "\n", "\t"}

RECURSIVE LStrip(_)
LStrip(s) == IF s # <<>> /\ IsSpace(Head(s)) THEN LStrip(Tail(s)) ELSE s

RECURSIVE RStrip(_)
RStrip(s) ==
    IF s # <<>> /\ IsSpace(s[Len(s)]) THEN RStrip(SubSeq(s, 1, Len(s) - 1)) ELSE s

\* str.strip()
Strip(s) == RStrip(LStrip(s))

StartsWith(s, w) == Len(w) <= Len(s) /\ SubSeq(s, 1, Len(w)) = w

\* s.replace(w, ""): every non-overlapping occurrence, left to right
RECURSIVE Remove(_, _)
Remove(s, w) ==
    IF s = <<>> THEN <<>>
    ELSE IF StartsWith(s, w) THEN Remove(SubSeq(s, Len(w) + 1, Len(s)), w)
    ELSE <<Head(s)>> \o Remove(Tail(s), w)

\* s.split(): the maximal runs of non-whitespace characters, in order
RECURSIVE SplitFrom(_, _)
SplitFrom(s, cur) ==
    IF s = <<>> THEN (IF cur = <<>> THEN <<>> ELSE <<cur>>)
    ELSE IF IsSpace(Head(s))
         THEN (IF cur = <<>> THEN <<>> ELSE <<cur>>) \o SplitFrom(Tail(s), <<>>)
         ELSE SplitFrom(Tail(s), Append(cur, Head(s)))

Split(s) == SplitFrom(s, <<>>)

Range(f) == {f[i] : i \in DOMAIN f}

-----------------------------------------------------------------------------
(* Messages (langchain_core.messages) *)

StrContent(t) == [kind |-> "str", text |-> t, parts |-> <<>>]
ListContent(ps) == [kind |-> "list", text |-> <<>>, parts |-> ps]
TextPart(t) == [type |-> "text", text |-> t]
ImagePart == [type |-> "image_url", text |-> <<>>]

HumanMessage(c) == [type |-> "human", content |-> c, tool_calls |-> <<>>, tool_call_id |-> 0]
AIMessage(c, calls) == [type |-> "ai", content |-> c, tool_calls |-> calls, tool_call_id |-> 0]
SystemMessage(c) == [type |-> "system", content |-> c, tool_calls |-> <<>>, tool_call_id |-> 0]
ToolMessage(c, id) == [type |-> "tool", content |-> c, tool_calls |-> <<>>, tool_call_id |-> id]

\* c if isinstance(c, str) else (c.get("text") or "")
PartText(p) == IF p.type = "text" THEN p.text ELSE <<>>

get_message_text(msg) ==
    IF msg.content.kind = "str" THEN msg.content.text
    ELSE IF msg.content.kind = "dict" THEN msg.content.text
    ELSE Strip(Concat([i \in 1..Len(msg.content.parts) |-> PartText(msg.content.parts[i])]))

-----------------------------------------------------------------------------
(* RAG decision node *)

knowledge_keywords == <<
    <<"t", "af", "i", " ", "c", "h", "is", "n", "h">>,
    <<"t", "h", "oo", "n", "g", " ", "t", "i", "n">>,
    <<"g", "i", "ar", "i", " ", "t", "h", "is", "c", "h">>,
    <<"l", "af", " ", "g", "if">>,
    <<"dd", "ij", "n", "h", " ", "n", "g", "h", "ix", "a">>,
    <<"k", "h", "as", "i", " ", "n", "i", "eej", "m">>,
    <<"c", "as", "c", "h">>,
    <<"l", "af", "m", " ", "s", "a", "o">>,
    <<"t", "uw", " ", "v", "aas", "n">>,
    <<"n", "ee", "n">>,
    <<"h", "uw", "ows", "n", "g", " ", "d", "aax", "n">>,
    <<"q", "u", "y", " ", "dd", "ij", "n", "h">>,
    <<"l", "u", "aaj", "t">>,
    <<"c", "h", "is", "n", "h", " ", "s", "as", "c", "h">>,
    <<"s", "o", " ", "s", "as", "n", "h">>,
    <<"k", "h", "as", "c", " ", "n", "h", "a", "u">> >>

\* config.get("configurable", {}).get("use_rag", True)
use_rag(config) == IF "use_rag" \in DOMAIN config THEN config.use_rag ELSE TRUE

should_use_rag_SkipConfig(st, config) ==
    IF st.messages = <<>> \/ st.messages[Len(st.messages)].type # "human"
    THEN [need_rag |-> FALSE, queries |-> <<>>]
    ELSE LET human_input == get_message_text(st.messages[Len(st.messages)])
         IN  [need_rag |-> \E k \in 1..Len(knowledge_keywords) :
                               Contains(Lower(human_input), knowledge_keywords[k]),
              queries |-> <<>>]

should_use_rag_NoLower(st, config) ==
    IF ~use_rag(config)
    THEN [need_rag |-> FALSE, queries |-> <<>>]
    ELSE IF st.messages = <<>> \/ st.messages[Len(st.messages)].type # "human"
    THEN [need_rag |-> FALSE, queries |-> <<>>]
    ELSE LET human_input == get_message_text(st.messages[Len(st.messages)])
         IN  [need_rag |-> \E k \in 1..Len(knowledge_keywords) :
                               Contains(human_input, knowledge_keywords[k]),
              queries |-> <<>>]

should_use_rag_AnyHuman(st, config) ==
    IF ~use_rag(config)
    THEN [need_rag |-> FALSE, queries |-> <<>>]
    ELSE IF st.messages = <<>>
    THEN [need_rag |-> FALSE, queries |-> <<>>]
    ELSE LET human_input == get_message_text(st.messages[Len(st.messages)])
         IN  [need_rag |-> \E k \in 1..Len(knowledge_keywords) :
                               Contains(Lower(human_input), knowledge_keywords[k]),
              queries |-> <<>>]

should_use_rag_KeepQueries(st, config) ==
    IF ~use_rag(config)
    THEN [need_rag |-> FALSE]
    ELSE IF st.messages = <<>> \/ st.messages[Len(st.messages)].type # "human"
    THEN [need_rag |-> FALSE]
    ELSE LET human_input == get_message_text(st.messages[Len(st.messages)])
         IN  [need_rag |-> \E k \in 1..Len(knowledge_keywords) :
                               Contains(Lower(human_input), knowledge_keywords[k])]

should_use_rag(st, config) ==
    IF ~use_rag(config)
    THEN [need_rag |-> FALSE, queries |-> <<>>]
    ELSE IF st.messages = <<>> \/ st.messages[Len(st.messages)].type # "human"
    THEN [need_rag |-> FALSE, queries |-> <<>>]
    ELSE LET human_input == get_message_text(st.messages[Len(st.messages)])
         IN  [need_rag |-> \E k \in 1..Len(knowledge_keywords) :
                               Contains(Lower(human_input), knowledge_keywords[k]),
              queries |-> <<>>]

-----------------------------------------------------------------------------
(* Query generation node *)

filler_words == <<
    <<"c", "h", "o", " ", "t", "oo", "i">>,
    <<"g", "i", "us", "p", " ", "t", "oo", "i">>,
    <<"l", "af", "m", " ", "ow", "n">>,
    <<"x", "i", "n", " ", "v", "u", "i", " ", "l", "of", "n", "g">>,
    <<"b", "aj", "n", " ", "c", "os", " ", "t", "h", "eer">>,
    <<"t", "oo", "i", " ", "m", "u", "oos", "n">>,
    <<"t", "oo", "i", " ", "c", "aaf", "n">>,
    <<"x", "i", "n">>,
    <<"h", "ax", "y">>,
    <<"t", "h", "oo", "n", "g", " ", "t", "i", "n", " ", "v", "eef">> >>

financial_terms == <<
    <<"dd", "aaf", "u", " ", "t", "uw">>,
    <<"t", "i", "ees", "t", " ", "k", "i", "eej", "m">>,
    <<"c", "h", "i", " ", "t", "i", "ee", "u">>,
    <<"t", "h", "u", " ", "n", "h", "aaj", "p">>,
    <<"l", "ax", "i", " ", "s", "u", "aas", "t">>,
    <<"c", "h", "uws", "n", "g", " ", "k", "h", "o", "as", "n">>,
    <<"c", "oor", " ", "p", "h", "i", "ees", "u">>,
    <<"t", "r", "as", "i", " ", "p", "h", "i", "ees", "u">>,
    <<"n", "g", "aa", "n", " ", "s", "as", "c", "h">>,
    <<"v", "a", "y">>,
    <<"n", "owj">>,
    <<"t", "h", "u", "ees">>,
    <<"b", "ar", "o", " ", "h", "i", "eer", "m">>,
    <<"q", "u", "yx">>,
    <<"t", "af", "i", " ", "c", "h", "is", "n", "h", " ", "c", "as", " ", "n", "h", "aa", "n">> >>

\* for word in filler_words: optimized_query = optimized_query.replace(word, "").strip()
RECURSIVE StripFillers(_, _)
StripFillers(q, k) ==
    IF k > Len(filler_words) THEN q
    ELSE CHOOSE r \in { StripFillers(x, k + 1) :
                           x \in { Strip(Remove(q, filler_words[k])) } } : TRUE

RECURSIVE MatchedTerms_NoLower(_, _)
MatchedTerms_NoLower(text, k) ==
    IF k > Len(financial_terms) THEN <<>>
    ELSE (IF Contains(text, financial_terms[k]) THEN <<financial_terms[k]>> ELSE <<>>)
         \o MatchedTerms_NoLower(text, k + 1)

\* [term for term in financial_terms if term in human_input.lower()]
RECURSIVE MatchedTerms(_, _)
MatchedTerms(text, k) ==
    IF k > Len(financial_terms) THEN <<>>
    ELSE (IF Contains(Lower(text), financial_terms[k]) THEN <<financial_terms[k]>> ELSE <<>>)
         \o MatchedTerms(text, k + 1)

\* " ".join(ws)
RECURSIVE JoinSpace(_)
JoinSpace(ws) ==
    IF ws = <<>> THEN <<>>
    ELSE IF Len(ws) = 1 THEN ws[1]
    ELSE ws[1] \o <<" ">> \o JoinSpace(Tail(ws))

generate_query_NoFallback(st, config) ==
    IF st.messages = <<>> \/ st.messages[Len(st.messages)].type # "human"
    THEN [queries |-> <<>>]
    ELSE LET human_input == get_message_text(st.messages[Len(st.messages)])
             optimized_query == StripFillers(human_input, 1)
             keyword_query == JoinSpace(MatchedTerms(human_input, 1))
         IN  [queries |-> st.queries \o <<optimized_query>>
                          \o (IF keyword_query # <<>> THEN <<keyword_query>> ELSE <<>>)]

generate_query_ResetsFlag(st, config) ==
    [queries |-> generate_query_NoFallback(st, config).queries, need_rag |-> FALSE]

generate_query(st, config) ==
    IF st.messages = <<>> \/ st.messages[Len(st.messages)].type # "human"
    THEN [queries |-> <<>>]
    ELSE LET human_input == get_message_text(st.messages[Len(st.messages)])
             stripped == StripFillers(human_input, 1)
             optimized_query == IF 2 * Len(stripped) < Len(human_input)
                                THEN human_input ELSE stripped
             keyword_query == JoinSpace(MatchedTerms(human_input, 1))
         IN  [queries |-> st.queries \o <<optimized_query>>
                          \o (IF keyword_query # <<>> THEN <<keyword_query>> ELSE <<>>)]

-----------------------------------------------------------------------------
(* Retriever adapter and knowledge retrieval node *)

Document(content, id) == [page_content |-> content, metadata |-> <<<<"document_id", id>>>>]

\* What one call of the retriever meets is an outcome:
\*   raised   vector_store.similarity_search raises, inside the try of
\*            query_knowledge_base
\*   escapes  an exception is raised outside that try (the log writes of the
\*            retriever and of query_knowledge_base), so it leaves the retriever
\*   docs     otherwise: the stored chunks that match the query, nearest
\*            first, of which the similarity search returns the first k

\* the default of query_knowledge_base(query, top_k)
top_k == 3

\* vector_store.similarity_search(query, k): the k nearest matches
similarity_search(matches, k) ==
    SubSeq(matches, 1, IF Len(matches) < k THEN Len(matches) ELSE k)

query_knowledge_base_Unbounded(outcome) == IF outcome.raised THEN <<>> ELSE outcome.docs

\* query_knowledge_base(query) with the default top_k: the similarity search
\* either answers or raises
query_knowledge_base(outcome) ==
    IF outcome.raised THEN <<>> ELSE similarity_search(outcome.docs, top_k)

\* the retriever yielded by make_retriever wraps query_knowledge_base
retriever(outcome) ==
    [raised |-> outcome.escapes,
     docs |-> IF outcome.escapes THEN <<>> ELSE query_knowledge_base(outcome)]

\* the retriever of the except clause of make_retriever
fallback_retriever(outcome) == [raised |-> FALSE, docs |-> <<>>]

NoAdapter == [handed |-> "none", yields |-> 0, raised |-> "none"]

\* make_retriever is a generator under @contextmanager.  It yields the
\* retriever to the with statement.  An exception of the with body is thrown
\* into the generator at that yield; the except clause catches it and yields
\* fallback_retriever, a second yield, which contextlib answers with
\* RuntimeError("generator didn't stop after throw()").
make_retriever(body_raised) ==
    [handed |-> "retriever",
     yields |-> IF body_raised THEN 2 ELSE 1,
     raised |-> IF body_raised THEN "RuntimeError" ELSE "none"]

\* the body of the with statement raises when a retriever call does
body_raised(st, outcomes) ==
    \E i \in 1..Len(st.queries) : retriever(outcomes[i]).raised

\* the context manager as retrieve_knowledge enters it
with_make_retriever(st, outcomes) ==
    IF st.queries = <<>> THEN NoAdapter ELSE make_retriever(body_raised(st, outcomes))

RECURSIVE AddUnique_ById(_, _)
AddUnique_ById(all_docs, docs) ==
    IF docs = <<>> THEN all_docs
    ELSE AddUnique_ById(
            IF \E i \in 1..Len(all_docs) : all_docs[i].metadata = Head(docs).metadata
            THEN all_docs ELSE Append(all_docs, Head(docs)),
            Tail(docs))

\* if doc.page_content not in all_doc_content: all_docs.append(doc)
RECURSIVE AddUnique(_, _)
AddUnique(all_docs, docs) ==
    IF docs = <<>> THEN all_docs
    ELSE AddUnique(
            IF \E i \in 1..Len(all_docs) : all_docs[i].page_content = Head(docs).page_content
            THEN all_docs ELSE Append(all_docs, Head(docs)),
            Tail(docs))

RECURSIVE CollectDocs(_, _)
CollectDocs(all_docs, answers) ==
    IF answers = <<>> THEN all_docs
    ELSE CollectDocs(AddUnique(all_docs, Head(answers).docs), Tail(answers))

rank_doc(main_query, doc) ==
    Cardinality(Range(Split(Lower(main_query))) \cap Range(Split(Lower(doc.page_content))))

RECURSIVE InsertRanked_Unstable(_, _, _)
InsertRanked_Unstable(sorted, doc, q) ==
    IF sorted = <<>> THEN <<doc>>
    ELSE IF rank_doc(q, Head(sorted)) > rank_doc(q, doc)
         THEN <<Head(sorted)>> \o InsertRanked_Unstable(Tail(sorted), doc, q)
         ELSE <<doc>> \o sorted

\* list.sort(key=rank_doc, reverse=True): stable, highest key first
RECURSIVE InsertRanked(_, _, _)
InsertRanked(sorted, doc, q) ==
    IF sorted = <<>> THEN <<doc>>
    ELSE IF rank_doc(q, Head(sorted)) >= rank_doc(q, doc)
         THEN <<Head(sorted)>> \o InsertRanked(Tail(sorted), doc, q)
         ELSE <<doc>> \o sorted

RECURSIVE SortRanked(_, _, _)
SortRanked(sorted, docs, q) ==
    IF docs = <<>> THEN sorted
    ELSE SortRanked(InsertRanked(sorted, Head(docs), q), Tail(docs), q)

retrieve_knowledge_KeepPartial(st, config, outcomes) ==
    IF st.queries = <<>>
    THEN [rag_context |-> <<>>, retrieved_docs |-> <<>>]
    ELSE LET answers == [i \in 1..Len(st.queries) |-> retriever(outcomes[i])]
             all_docs == CollectDocs(<<>>, answers)
             ranked == IF Len(all_docs) > 1
                       THEN SortRanked(<<>>, all_docs, st.queries[1])
                       ELSE all_docs
         IN  [rag_context |-> [i \in 1..Len(ranked) |-> ranked[i].page_content],
              retrieved_docs |-> ranked]

\* [doc.page_content for doc in all_docs]; all_doc_content, to which the
\* loop appends the content of every document it appends to all_docs
PageContents(docs) == [i \in 1..Len(docs) |-> docs[i].page_content]

retrieve_knowledge_StaleContent(st, config, outcomes) ==
    IF st.queries = <<>>
    THEN [rag_context |-> <<>>, retrieved_docs |-> <<>>]
    ELSE LET answers == [i \in 1..Len(st.queries) |-> retriever(outcomes[i])]
         IN  IF with_make_retriever(st, outcomes).raised # "none"
             THEN [rag_context |-> <<>>, retrieved_docs |-> <<>>]
             ELSE LET all_docs == CollectDocs(<<>>, answers)
                      ranked == IF Len(all_docs) > 1
                                THEN SortRanked(<<>>, all_docs, st.queries[1])
                                ELSE all_docs
                  IN  [rag_context |-> PageContents(all_docs),
                       retrieved_docs |-> ranked]

\* outcomes[i]: what the retriever call for queries[i] meets
retrieve_knowledge(st, config, outcomes) ==
    IF st.queries = <<>>
    THEN [rag_context |-> <<>>, retrieved_docs |-> <<>>]
    ELSE LET answers == [i \in 1..Len(st.queries) |-> retriever(outcomes[i])]
         IN  IF with_make_retriever(st, outcomes).raised # "none"
             THEN [rag_context |-> <<>>, retrieved_docs |-> <<>>]
             ELSE LET all_docs == CollectDocs(<<>>, answers)
                      ranked == IF Len(all_docs) > 1
                                THEN SortRanked(<<>>, all_docs, st.queries[1])
                                ELSE all_docs
                      all_doc_content == IF Len(all_docs) > 1
                                         THEN PageContents(ranked)
                                         ELSE PageContents(all_docs)
                  IN  [rag_context |-> all_doc_content,
                       retrieved_docs |-> ranked]

-----------------------------------------------------------------------------
(* Model invocation node *)

END == "__end__"

DEFAULT_SYSTEM_PROMPT == <<"DEFAULT_SYSTEM_PROMPT">>

RECURSIVE MetaStr(_)
MetaStr(items) ==
    IF items = <<>> THEN <<>>
    ELSE <<" ", Head(items)[1], "=", Head(items)[2]>> \o MetaStr(Tail(items))

FormatDoc(doc) ==
    LET meta_str == MetaStr(doc.metadata)
    IN  <<"<document">> \o (IF meta_str # <<>> THEN <<" ">> \o meta_str ELSE <<>>)
        \o <<">", "\n">> \o doc.page_content \o <<"\n", "</document>">>

format_docs(docs) ==
    IF docs = <<>> THEN <<"<documents>", "</documents>">>
    ELSE <<"<documents>", "\n">>
         \o Concat([i \in 1..Len(docs) |-> FormatDoc(docs[i])])
         \o <<"\n", "</documents>">>

RECURSIVE JoinBlank(_)
JoinBlank(ts) ==
    IF ts = <<>> THEN <<>>
    ELSE IF Len(ts) = 1 THEN ts[1]
    ELSE ts[1] \o <<"\n", "\n">> \o JoinBlank(Tail(ts))

KnowledgeHeader == <<"\n", "\n", "Relevant information from knowledge base:", "\n">>

enhanced_system(st, config) ==
    LET system == IF "system_prompt" \in DOMAIN config
                  THEN config.system_prompt ELSE DEFAULT_SYSTEM_PROMPT
    IN  IF st.retrieved_docs # <<>>
        THEN system \o KnowledgeHeader \o format_docs(st.retrieved_docs)
        ELSE IF st.rag_context # <<>>
        THEN system \o KnowledgeHeader \o JoinBlank(st.rag_context)
        ELSE system

\* prompt.format_messages(chat_history=messages, agent_scratchpad=[])
formatted_prompt(st, config) ==
    <<SystemMessage(StrContent(enhanced_system(st, config)))>> \o st.messages

\* the language model is asked only when there is a message
calls_model(st) == st.messages # <<>>

call_model_NoShortCircuit(st, config, reply) == [messages |-> <<reply>>]

\* reply: the answer of model_with_tools.ainvoke(formatted_prompt)
call_model(st, config, reply) ==
    IF st.messages = <<>>
    THEN [messages |-> <<SystemMessage(StrContent(enhanced_system(st, config)))>>]
    ELSE [messages |-> <<reply>>]

-----------------------------------------------------------------------------
(* Router *)

should_continue_AlwaysEnd(st) == END

should_continue_WrongEnd(st) ==
    IF st.messages = <<>> THEN "end"
    ELSE LET last_message == st.messages[Len(st.messages)]
         IN  IF last_message.type # "ai" \/ last_message.tool_calls = <<>>
             THEN "end" ELSE "tools"

should_continue(st) ==
    IF st.messages = <<>> THEN END
    ELSE LET last_message == st.messages[Len(st.messages)]
         IN  IF last_message.type # "ai" \/ last_message.tool_calls = <<>>
             THEN END ELSE "tools"

-----------------------------------------------------------------------------
(* Backend tools (tools.py) *)

\* the value of userId before any request set it
None == "None"

\* what one HTTP request to the finance backend meets: an answer with status
\* 200, an answer with another status, or a requests exception
HttpOutcomes == {"200", "non2xx", "network"}

\* what the language model of user_input_expense answers: JSON, or text that
\* parse_response cannot parse
LlmOutcomes == {"json", "unparsable"}

\* Python's `not user_id`: None and the empty string
Unset(user_id) == user_id \in {None, ""}

Request(command, user_id) == [command |-> command, user_id |-> user_id]

\* a call of a tool returns a string or raises; requests: what it sent
Returns(text, requests) == [raised |-> "none", text |-> text, requests |-> requests]
Raises(exception, requests) == [raised |-> exception, text |-> <<>>, requests |-> requests]

\* requests.get is not guarded, and the branch of a status other than 200
\* reads response.data, which a requests.Response does not have
get_user_subcategories(user_id, http) ==
    IF Unset(user_id)
    THEN Returns(<<"No subcategories available">>, <<>>)
    ELSE LET sent == <<Request("get_subcategories", user_id)>>
         IN  CASE http = "network" -> Raises("ConnectionError", sent)
               [] http = "200" -> Returns(<<"subcategories">>, sent)
               [] OTHER -> Raises("AttributeError", sent)

\* o.subcategories, o.llm, o.request: what the subcategories request, the
\* classifying language model and the create_transaction_v2 request meet
user_input_expense_Body(user, o) ==
    LET subcategories == get_user_subcategories(user, o.subcategories)
    IN  IF subcategories.raised # "none" THEN subcategories
        ELSE LET asked == subcategories.requests \o <<Request("subllm.invoke", None)>>
                 sent == asked \o <<Request("create_transaction_v2", user)>>
             IN  CASE o.llm = "unparsable" -> Raises("AttributeError", asked)
                   [] o.request = "network" -> Raises("ConnectionError", sent)
                   [] o.request = "200" -> Returns(<<"transaction recorded">>, sent)
                   [] OTHER -> Returns(<<"transaction failed">>, sent)

user_input_expense_NoGuard(user, o) == user_input_expense_Body(user, o)

\* `if userId is None` guards the tool; the empty string passes
user_input_expense(user, o) ==
    IF user = None
    THEN Returns(<<"User ID is not set. Please provide a valid user ID.">>, <<>>)
    ELSE user_input_expense_Body(user, o)

get_transaction_history(user, o) ==
    IF Unset(user)
    THEN Returns(<<"User ID is not set (transaction history)">>, <<>>)
    ELSE LET sent == <<Request("get_transaction_histories_user", user)>>
         IN  IF o.request = "200" THEN Returns(<<"transaction history">>, sent)
             ELSE Returns(<<"transaction history failed">>, sent)

get_current_spending_model(user, o) ==
    IF Unset(user)
    THEN Returns(<<"User ID is not set (spending model)">>, <<>>)
    ELSE LET sent == <<Request("get_user_spending_model", user)>>
         IN  IF o.request = "200" THEN Returns(<<"spending model">>, sent)
             ELSE Returns(<<"spending model failed">>, sent)

get_available_spending_models(o) ==
    LET sent == <<Request("get_spending_models", None)>>
    IN  IF o.request = "200" THEN Returns(<<"spending models">>, sent)
        ELSE Returns(<<"spending models failed">>, sent)

tools == <<"user_input_expense", "get_transaction_history",
           "get_current_spending_model", "get_available_spending_models">>

\* the tool of that name called while userId holds user
invoke(name, user, o) ==
    CASE name = "user_input_expense" -> user_input_expense(user, o)
      [] name = "get_transaction_history" -> get_transaction_history(user, o)
      [] name = "get_current_spending_model" -> get_current_spending_model(user, o)
      [] name = "get_available_spending_models" -> get_available_spending_models(o)

-----------------------------------------------------------------------------
(* Tool execution node *)

FrontendTool(name) == [name |-> name, frontend |-> TRUE]

FrontendTool_arun_Returns(call) == Returns(<<"This is a frontend tool call">>, <<>>)

\* FrontendTool._run and FrontendTool._arun, whatever the arguments
FrontendTool_arun(call) == Raises("NodeInterrupt", <<>>)

get_tools(config) ==
    [i \in 1..Len(tools) |-> [name |-> tools[i], frontend |-> FALSE]]
    \o [i \in 1..Len(config.frontend_tools) |-> FrontendTool(config.frontend_tools[i])]

\* the name is one of tools_by_name of the ToolNode
Registered(config, name) ==
    \E i \in 1..Len(get_tools(config)) : get_tools(config)[i].name = name

\* the registered tool a call names
ToolByName(config, name) ==
    LET ts == get_tools(config)
    IN  ts[CHOOSE i \in 1..Len(ts) : ts[i].name = name /\ \A j \in (i + 1)..Len(ts) : ts[j].name # name]

\* the call names a frontend stub: _run and _arun raise NodeInterrupt
IsFrontend(config, name) == Registered(config, name) /\ ToolByName(config, name).frontend

\* the call names a backend tool, which the ToolNode runs
IsBackend(config, name) == Registered(config, name) /\ ~ToolByName(config, name).frontend

\* a frontend stub raises NodeInterrupt, which the ToolNode lets through: it
\* leaves the node without a result
interrupts(st, config) ==
    LET calls == st.messages[Len(st.messages)].tool_calls
    IN  \E i \in 1..Len(calls) :
           /\ IsFrontend(config, calls[i].name)
           /\ FrontendTool_arun(calls[i]).raised = "NodeInterrupt"

tool_output_Silent(call, config, user, o) ==
    IF ~Registered(config, call.name)
    THEN <<>>
    ELSE LET result == IF IsFrontend(config, call.name)
                       THEN FrontendTool_arun(call)
                       ELSE invoke(call.name, user, o)
         IN  IF result.raised # "none"
             THEN <<"Error: ", result.raised, " Please fix your mistakes.">>
             ELSE result.text

\* ToolNode on one call, with handle_tool_errors at its default: a name that
\* is not registered and an exception of the tool both become the content of
\* the Tool Result
tool_output(call, config, user, o) ==
    IF ~Registered(config, call.name)
    THEN <<"Error: ", call.name, " is not a valid tool">>
    ELSE LET result == IF IsFrontend(config, call.name)
                       THEN FrontendTool_arun(call)
                       ELSE invoke(call.name, user, o)
         IN  IF result.raised # "none"
             THEN <<"Error: ", result.raised, " Please fix your mistakes.">>
             ELSE result.text

\* the requests call i sends when it names a backend tool
tool_requests(call, config, user, o) ==
    IF IsBackend(config, call.name) THEN invoke(call.name, user, o).requests ELSE <<>>

run_tools_FirstOnly(st, config, outputs) ==
    LET calls == st.messages[Len(st.messages)].tool_calls
    IN  [messages |-> <<ToolMessage(StrContent(outputs[1]), calls[1].id)>>]

run_tools_Reversed(st, config, outputs) ==
    LET calls == st.messages[Len(st.messages)].tool_calls
        n == Len(calls)
    IN  [messages |-> [i \in 1..n |->
                          ToolMessage(StrContent(outputs[n + 1 - i]), calls[n + 1 - i].id)]]

\* outputs[i]: the content the ToolNode produces for the i-th requested call
run_tools(st, config, outputs) ==
    LET calls == st.messages[Len(st.messages)].tool_calls
    IN  [messages |-> [i \in 1..Len(calls) |->
                          ToolMessage(StrContent(outputs[i]), calls[i].id)]]

-----------------------------------------------------------------------------
(* The workflow: channels, edges and checkpointing *)

EmptyState ==
    [messages |-> <<>>, queries |-> <<>>, need_rag |-> FALSE,
     rag_context |-> <<>>, retrieved_docs |-> <<>>]

\* AgentState: messages are appended, every other key is overwritten
AgentState(st, delta) ==
    [k \in DOMAIN st |->
        IF k \in DOMAIN delta
        THEN (IF k = "messages" THEN st[k] \o delta[k] ELSE delta[k])
        ELSE st[k]]

workflow_ToolsToEnd(node, st) ==
    CASE node = "rag_decision" -> (IF st.need_rag THEN "generate_query" ELSE "agent")
      [] node = "generate_query" -> "retrieve"
      [] node = "retrieve" -> "agent"
      [] node = "agent" -> should_continue(st)
      [] node = "tools" -> END

workflow_ToolsToRouter(node, st) ==
    CASE node = "rag_decision" -> (IF st.need_rag THEN "generate_query" ELSE "agent")
      [] node = "generate_query" -> "retrieve"
      [] node = "retrieve" -> "agent"
      [] node = "agent" -> should_continue(st)
      [] node = "tools" -> should_continue(st)

workflow_SwappedRag(node, st) ==
    CASE node = "rag_decision" -> (IF st.need_rag THEN "agent" ELSE "generate_query")
      [] node = "generate_query" -> "retrieve"
      [] node = "retrieve" -> "agent"
      [] node = "agent" -> should_continue(st)
      [] node = "tools" -> "agent"

\* the node that follows `node` once its delta is merged into st
workflow(node, st) ==
    CASE node = "rag_decision" -> (IF st.need_rag THEN "generate_query" ELSE "agent")
      [] node = "generate_query" -> "retrieve"
      [] node = "retrieve" -> "agent"
      [] node = "agent" -> should_continue(st)
      [] node = "tools" -> "agent"

-----------------------------------------------------------------------------
(* Knowledge base: document upload and deletion (vectordb.py, routes.py) *)

\* document ids, the values of uuid.uuid4()
DocumentIds == {"d1", "d2"}

\* most chunks the text splitter makes of an uploaded file
MaxChunks == 2

\* What process_and_store_document meets:
\*   unsupported  get_document_loader raises ValueError for the content type
\*   load_fails   loader.load() raises
\*   split_fails  text_splitter.split_documents raises
\*   store_fails  vector_store.add_documents raises, `stored` of the chunks
\*                having reached the collection
\*   stored       all chunks are stored
UploadOutcomes ==
    { [met |-> m, chunks |-> 0, stored |-> 0] :
         m \in {"unsupported", "load_fails", "split_fails"} }
    \cup { [met |-> "store_fails", chunks |-> n, stored |-> k] :
              n \in 1..MaxChunks, k \in 0..MaxChunks }
    \cup { [met |-> "stored", chunks |-> n, stored |-> n] : n \in 0..MaxChunks }

\* document_metadata[document_id] = {...}
PutEntry(metadata, document_id, entry) ==
    [d \in DOMAIN metadata \cup {document_id} |->
        IF d = document_id THEN entry ELSE metadata[d]]

\* del document_metadata[document_id]
DelEntry(metadata, document_id) ==
    [d \in DOMAIN metadata \ {document_id} |-> metadata[d]]

process_and_store_document_MetadataFirst(metadata, pts, files, document_id, o) ==
    LET temp_file_path == "tmp"
    IN  IF o.met \in {"unsupported", "load_fails", "split_fails"}
        THEN [raised |-> TRUE, document_id |-> "none", document_metadata |-> metadata,
              points |-> pts, temp_files |-> (files \cup {temp_file_path}) \ {temp_file_path}]
        ELSE [raised |-> o.met = "store_fails",
              document_id |-> IF o.met = "store_fails" THEN "none" ELSE document_id,
              document_metadata |-> PutEntry(metadata, document_id, [chunk_count |-> o.chunks]),
              points |-> [pts EXCEPT ![document_id] = @ + o.stored],
              temp_files |-> (files \cup {temp_file_path}) \ {temp_file_path}]

\* the temporary file is written before the try and unlinked in its finally;
\* the entry is put in document_metadata after add_documents returned
process_and_store_document(metadata, pts, files, document_id, o) ==
    LET temp_file_path == "tmp"
        written == files \cup {temp_file_path}
        unlinked == written \ {temp_file_path}
    IN  CASE o.met \in {"unsupported", "load_fails", "split_fails"} ->
               [raised |-> TRUE, document_id |-> "none", document_metadata |-> metadata,
                points |-> pts, temp_files |-> unlinked]
          [] o.met = "store_fails" ->
               [raised |-> TRUE, document_id |-> "none", document_metadata |-> metadata,
                points |-> [pts EXCEPT ![document_id] = @ + o.stored],
                temp_files |-> unlinked]
          [] OTHER ->
               [raised |-> FALSE, document_id |-> document_id,
                document_metadata |-> PutEntry(metadata, document_id,
                                               [chunk_count |-> o.chunks]),
                points |-> [pts EXCEPT ![document_id] = @ + o.stored],
                temp_files |-> unlinked]

\* the response of upload_document to what process_and_store_document did
DocumentResponse(result) ==
    IF result.raised
    THEN [route |-> "upload", status |-> 500, error_code |-> "DOCUMENT_PROCESSING_ERROR"]
    ELSE [route |-> "upload", status |-> 200, document_id |-> result.document_id]

\* What delete_document meets:
\*   ok             the Qdrant client answers
\*   scroll_raises  qdrant_client.scroll raises
\*   delete_raises  qdrant_client.delete raises and the points stay
\*   delete_lost    qdrant_client.delete raises after the points were removed
DeleteOutcomes == {"ok", "scroll_raises", "delete_raises", "delete_lost"}

delete_document_KeepMetadata(metadata, pts, document_id, o) ==
    CASE o = "scroll_raises" ->
           [value |-> FALSE, document_metadata |-> metadata, points |-> pts]
      [] pts[document_id] > 0 /\ o = "delete_raises" ->
           [value |-> FALSE, document_metadata |-> metadata, points |-> pts]
      [] pts[document_id] > 0 /\ o = "delete_lost" ->
           [value |-> FALSE, document_metadata |-> metadata,
            points |-> [pts EXCEPT ![document_id] = 0]]
      [] pts[document_id] > 0 ->
           [value |-> TRUE, document_metadata |-> metadata,
            points |-> [pts EXCEPT ![document_id] = 0]]
      [] document_id \in DOMAIN metadata ->
           [value |-> TRUE, document_metadata |-> DelEntry(metadata, document_id),
            points |-> pts]
      [] OTHER ->
           [value |-> FALSE, document_metadata |-> metadata, points |-> pts]

\* the points of the document are scrolled and, if there are any, deleted
\* together with the entry; with no points the entry alone is deleted; any
\* exception makes the function return False
delete_document(metadata, pts, document_id, o) ==
    CASE o = "scroll_raises" ->
           [value |-> FALSE, document_metadata |-> metadata, points |-> pts]
      [] pts[document_id] > 0 /\ o = "delete_raises" ->
           [value |-> FALSE, document_metadata |-> metadata, points |-> pts]
      [] pts[document_id] > 0 /\ o = "delete_lost" ->
           [value |-> FALSE, document_metadata |-> metadata,
            points |-> [pts EXCEPT ![document_id] = 0]]
      [] pts[document_id] > 0 ->
           [value |-> TRUE, document_metadata |-> DelEntry(metadata, document_id),
            points |-> [pts EXCEPT ![document_id] = 0]]
      [] document_id \in DOMAIN metadata ->
           [value |-> TRUE, document_metadata |-> DelEntry(metadata, document_id),
            points |-> pts]
      [] OTHER ->
           [value |-> FALSE, document_metadata |-> metadata, points |-> pts]

\* the response of delete_document_endpoint to the value of delete_document
DocumentDeleteResponse(success) ==
    IF success
    THEN [route |-> "delete", status |-> 200, result |-> "success"]
    ELSE [route |-> "delete", status |-> 404, error_code |-> "DOCUMENT_NOT_FOUND"]

-----------------------------------------------------------------------------
(* Spending-model suggestion (suggestion/service.py, routes.py, models.py) *)

SpendingModel(id, name, description) ==
    [id |-> id, name |-> name, description |-> description]

\* recommended_model = None, and the data of a response without data
NoModel == SpendingModel(None, None, None)
NoSuggestion == [recommendedModel |-> NoModel, alternativeModels |-> <<>>, reasoning |-> <<>>]

\* analysis_result = None: the answer of the language model did not parse
Unparsed ==
    [parsed |-> FALSE, recommended_model_name |-> None, alternative_model_names |-> {},
     reasoning |-> <<>>]

\* SuggestionResponse(**kwargs): a pydantic model with the required fields
\* recommendedModel, alternativeModels and reasoning and no aliases; keyword
\* arguments of other names are ignored, a missing or None field is a
\* validation error
SuggestionResponse(kwargs) ==
    IF /\ {"recommendedModel", "alternativeModels", "reasoning"} \subseteq DOMAIN kwargs
       /\ kwargs.recommendedModel # NoModel
    THEN [raised |-> "none",
          value |-> [recommendedModel |-> kwargs.recommendedModel,
                     alternativeModels |-> kwargs.alternativeModels,
                     reasoning |-> kwargs.reasoning]]
    ELSE [raised |-> "ValidationError", value |-> NoSuggestion]

\* the catalog entries a sequence of indices selects
RECURSIVE Entries(_, _)
Entries(spending_models, indices) ==
    IF indices = <<>> THEN <<>>
    ELSE <<spending_models[Head(indices)]>> \o Entries(spending_models, Tail(indices))

\* the indices of 1..n that are in S, ascending
RECURSIVE Picked(_, _)
Picked(n, S) ==
    IF n = 0 THEN <<>>
    ELSE Picked(n - 1, S) \o (IF n \in S THEN <<n>> ELSE <<>>)

\* the loop of generate_suggestion over the catalog and the fallback to the
\* first entry: the keyword arguments it passes to SuggestionResponse
suggestion_kwargs(spending_models, analysis_result) ==
    LET n == Len(spending_models)
        matches == {i \in 1..n :
                      spending_models[i].name = analysis_result.recommended_model_name}
        others == {i \in 1..n :
                     /\ i \notin matches
                     /\ spending_models[i].name \in analysis_result.alternative_model_names}
        recommended_model ==
            IF matches # {}
            THEN spending_models[CHOOSE i \in matches : \A j \in matches : j <= i]
            ELSE IF n > 0 THEN spending_models[1] ELSE NoModel
    IN  [recommended_model |-> recommended_model,
         alternative_models |-> Entries(spending_models, Picked(n, others)),
         reasoning |-> analysis_result.reasoning]

\* fetch: what get_spending_models meets; analysis_result: the parsed answer
\* of the language model
generate_suggestion(fetch, analysis_result) ==
    IF fetch.met # "ok" \/ ~analysis_result.parsed
    THEN [raised |-> "Exception", value |-> NoSuggestion]
    ELSE SuggestionResponse(suggestion_kwargs(fetch.catalog, analysis_result))

\* the response of suggest_spending_model; request: what request.data holds
suggest_spending_model_response(request, fetch, analysis_result) ==
    CASE request = "invalid_json" ->
           [route |-> "suggestion", status |-> 400, error_code |-> "INVALID_JSON",
            data |-> NoSuggestion]
      [] request = "no_pairs" ->
           [route |-> "suggestion", status |-> 500, error_code |-> "SUGGESTION_ERROR",
            data |-> NoSuggestion]
      [] OTHER ->
           LET result == generate_suggestion(fetch, analysis_result)
           IN  IF result.raised # "none"
               THEN [route |-> "suggestion", status |-> 500,
                     error_code |-> "SUGGESTION_ERROR",
            data |-> NoSuggestion]
               ELSE [route |-> "suggestion", status |-> 200, error_code |-> None,
                     data |-> result.value]

-----------------------------------------------------------------------------
(* Inputs drawn by the model *)

Conversations == {"c1", "c2"}

\* parsed_data["UserId"]: every conversation belongs to one user
Owner(c) == IF c = "c1" THEN "u1" ELSE "u2"

\* message_obj.message: "nen vay" (a knowledge keyword and a financial term)
\* and "xin" (neither)
UserTexts == { <<"n", "ee", "n", " ", "v", "a", "y">>, <<"x", "i", "n">> }

Answer == <<"answer">>

Numeral(n) ==
    IF n \in 1..12
    THEN <<"1", "2", "3", "4", "5", "6", "7", "8", "9", "10", "11", "12">>[n]
    ELSE "more"

\* the text of the reply to a prompt of n messages: replies to different
\* prompts differ
AnswerTo(n) == Answer \o <<Numeral(n)>>

\* caller-supplied history
PreviousChoices == { <<>> }

History ==
    << [Role |-> "user", Content |-> <<"x", "i", "n">>],
       [Role |-> "bot", Content |-> <<"n", "ee", "n">>] >>

\* documents of the knowledge store; the first and the third share their text
StoredDocs ==
    << Document(<<"v", "a", "y">>, "1"),
       Document(<<"n", "ee", "n", " ", "v", "a", "y">>, "2"),
       Document(<<"v", "a", "y">>, "3"),
       Document(<<"N", "EE", "N">>, "4"),
       Document(<<"x", "i", "n">>, "5") >>

SearchOutcomes ==
    { [raised |-> TRUE, escapes |-> FALSE, docs |-> <<>>],
      [raised |-> FALSE, escapes |-> TRUE, docs |-> <<>>],
      [raised |-> FALSE, escapes |-> FALSE, docs |-> <<StoredDocs[1]>>],
      [raised |-> FALSE, escapes |-> FALSE, docs |-> StoredDocs] }

\* tools the language model asks for
RequestedTools == {"user_input_expense"}

\* what a call of a tool may meet: everything answers, or one of the
\* subcategories request, the classifying language model and the request of
\* the tool itself fails
BackendOutcomes ==
    { o \in [subcategories : HttpOutcomes, llm : LlmOutcomes, request : HttpOutcomes] :
         Cardinality({f \in {"subcategories", "llm", "request"} :
                         o[f] \notin {"200", "json"}}) <= 1 }

\* what the calls of a whole invocation meet: the backend and the classifying
\* language model answer
ServedOutcomes == { [subcategories |-> "200", llm |-> "json", request |-> "200"] }

SeqsUpTo(S, n) == UNION { [1..k -> S] : k \in 0..n }

\* the language model raises, or replies with an assistant message that
\* calls tools bound by get_tool_defs(config)
ModelOutcomes(config) ==
    { [raised |-> TRUE, names |-> <<>>] }
    \cup { [raised |-> FALSE, names |-> ns] :
              ns \in SeqsUpTo(RequestedTools \cup Range(config.frontend_tools),
                              MaxCallIds - nextId) }

\* the reply to the prompt built from st
Reply(o, st) ==
    AIMessage(StrContent(AnswerTo(Len(st.messages))),
              [i \in 1..Len(o.names) |-> [id |-> nextId + i, name |-> o.names[i]]])

-----------------------------------------------------------------------------
(* receive_message_endpoint and the compiled graph *)

RoleUpper(r) ==
    CASE r = "user" -> "USER"
      [] r = "bot" -> "BOT"
      [] r = "assistant" -> "ASSISTANT"
      [] r = "system" -> "SYSTEM"
      [] OTHER -> r

RECURSIVE previous_langchain_messages(_)
previous_langchain_messages(previous_messages) ==
    IF previous_messages = <<>> THEN <<>>
    ELSE LET msg == Head(previous_messages)
             rest == previous_langchain_messages(Tail(previous_messages))
         IN  IF RoleUpper(msg.Role) = "USER"
             THEN <<HumanMessage(StrContent(msg.Content))>> \o rest
             ELSE IF RoleUpper(msg.Role) = "BOT" \/ RoleUpper(msg.Role) = "ASSISTANT"
             THEN <<AIMessage(StrContent(msg.Content), <<>>)>> \o rest
             ELSE IF RoleUpper(msg.Role) = "SYSTEM"
             THEN <<SystemMessage(StrContent(msg.Content))>> \o rest
             ELSE rest

\* values of the variables while no invocation is in flight
NoDelta == [none |-> TRUE]
NoResponse == [status |-> 0, result |-> "none", text |-> <<>>]
NoConfig == [system |-> <<>>, frontend_tools |-> <<>>, thread_id |-> "none"]
NoMessage == [userId |-> None, conversationId |-> "none"]
NoInput == [messages |-> <<>>, queries |-> <<>>]
NoCall == [route |-> "none"]
NoApiResponse == [route |-> "none", status |-> 0]

\* the knowledge store and the routes at process start: document_metadata = {}
InitApi ==
    /\ document_metadata = <<>>
    /\ points = [d \in DocumentIds |-> 0]
    /\ temp_files = {}
    /\ api_call = NoCall
    /\ api_response = NoApiResponse

\* RevicedMessageParse(userId, message, conversationId, PreviousMessages)
RevicedMessageParse(user, conversation_id) ==
    [userId |-> user, conversationId |-> conversation_id]

\* the messages and the queries a state object holds
Held(st) == [messages |-> st.messages, queries |-> st.queries]

\* the state object handed to a node once the node returned.  generate_query
\* takes queries = state.get("queries", []) and appends to it: the list it
\* returns is the list the state holds.  No other node writes to its input.
state_after(node, st, delta) ==
    IF node = "generate_query" /\ st.messages # <<>>
       /\ st.messages[Len(st.messages)].type = "human"
    THEN [st EXCEPT !.queries = delta.queries]
    ELSE st

ainvoke_Fresh(inputs, config) ==
    /\ state' = AgentState(EmptyState, [messages |-> inputs])
    /\ checkpoint' = [checkpoint EXCEPT ![config.thread_id] = state']
    /\ cfg' = config
    /\ pc' = "rag_decision"
    /\ path' = <<>>

\* graph.ainvoke({"messages": inputs}, config): the input is merged into the
\* channel values checkpointed for the thread and the entry point is scheduled
ainvoke(inputs, config) ==
    /\ state' = AgentState(checkpoint[config.thread_id], [messages |-> inputs])
    /\ checkpoint' = [checkpoint EXCEPT ![config.thread_id] = state']
    /\ cfg' = config
    /\ pc' = "rag_decision"
    /\ path' = <<>>

receive_message_endpoint(user, conversation_id, message, PreviousMessages) ==
    /\ pc = "idle"
    /\ invocations < MaxInvocations
    /\ invocations' = invocations + 1
    /\ message_obj' = RevicedMessageParse(user, conversation_id)
    /\ userId' = message_obj'.userId
    /\ LET new_messages == <<HumanMessage(ListContent(<<TextPart(message)>>))>>
           previous == previous_langchain_messages(PreviousMessages)
           inputs == IF previous # <<>> /\ Len(new_messages) = 1
                        /\ new_messages[1].type = "human"
                     THEN previous \o new_messages ELSE new_messages
           config == [system |-> <<>>, frontend_tools |-> <<>>,
                      thread_id |-> conversation_id]
       IN  ainvoke(inputs, config)
    /\ response' = NoResponse
    /\ UNCHANGED <<api_vars, ret, executed, nextId, prompt, searches, adapter, backend, node_input>>

\* one node ran: its delta is merged, the checkpoint written, the edge taken
Step(node, delta) ==
    \E d \in {delta} :
       /\ ret' = d
       /\ state' = AgentState(state, d)
       /\ checkpoint' = [checkpoint EXCEPT ![cfg.thread_id] = state']
       /\ path' = Append(path, node)
       /\ pc' = workflow(node, state')
       /\ node_input' = Held(state_after(node, state, d))

rag_decision ==
    /\ pc = "rag_decision"
    /\ Step("rag_decision", should_use_rag(state, cfg))
    /\ UNCHANGED <<api_vars, cfg, executed, nextId, prompt, response, invocations, searches, adapter,
                   userId, message_obj, backend>>

generate_query_node ==
    /\ pc = "generate_query"
    /\ Step("generate_query", generate_query(state, cfg))
    /\ UNCHANGED <<api_vars, cfg, executed, nextId, prompt, response, invocations, searches, adapter,
                   userId, message_obj, backend>>

retrieve ==
    /\ pc = "retrieve"
    /\ \E outcomes \in [1..Len(state.queries) -> SearchOutcomes] :
          /\ Step("retrieve", retrieve_knowledge(state, cfg, outcomes))
          /\ searches' = outcomes
          /\ adapter' = with_make_retriever(state, outcomes)
    /\ UNCHANGED <<api_vars, cfg, executed, nextId, prompt, response, invocations,
                   userId, message_obj, backend>>

agent ==
    /\ pc = "agent"
    /\ \E o \in ModelOutcomes(cfg) :
          IF calls_model(state) /\ o.raised
          THEN /\ pc' = "error"
               /\ path' = Append(path, "agent")
               /\ prompt' = formatted_prompt(state, cfg)
               /\ node_input' = Held(state)
               /\ UNCHANGED <<checkpoint, state, ret, nextId>>
          ELSE /\ Step("agent", call_model(state, cfg, Reply(o, state)))
               /\ prompt' = IF calls_model(state)
                            THEN formatted_prompt(state, cfg) ELSE prompt
               /\ nextId' = IF calls_model(state) THEN nextId + Len(o.names) ELSE nextId
    /\ UNCHANGED <<api_vars, cfg, executed, response, invocations, searches, adapter,
                   userId, message_obj, backend>>

\* the backend calls of a tools step.  The ToolNode starts all calls of the
\* message together and the backend tools run in worker threads: when a
\* frontend stub interrupts the step, a backend call of the same message ran
\* or did not, and its result is dropped.
BackendCalls(st, config) ==
    LET calls == st.messages[Len(st.messages)].tool_calls
        all == {i \in 1..Len(calls) : IsBackend(config, calls[i].name)}
    IN  IF interrupts(st, config) THEN SUBSET all ELSE {all}

\* one run of the tools node, each call meeting one of the Outcomes
tools_step(Outcomes) ==
    /\ pc = "tools"
    /\ LET calls == state.messages[Len(state.messages)].tool_calls
       IN  \E outcomes \in [1..Len(calls) -> Outcomes], ran \in BackendCalls(state, cfg) :
              /\ executed' = [id \in DOMAIN executed |->
                                 executed[id] + Cardinality({i \in ran : calls[i].id = id})]
              /\ backend' = backend \cup
                    UNION { { [id |-> calls[i].id, command |-> q.command,
                               user_id |-> q.user_id, by |-> message_obj.userId] :
                                 q \in Range(tool_requests(calls[i], cfg, userId, outcomes[i])) } :
                            i \in ran }
              /\ IF interrupts(state, cfg)
                 THEN /\ pc' = "interrupted"
                      /\ path' = Append(path, "tools")
                      /\ node_input' = Held(state)
                      /\ UNCHANGED <<checkpoint, state, ret>>
                 ELSE Step("tools", run_tools(state, cfg,
                         [i \in 1..Len(calls) |-> tool_output(calls[i], cfg, userId, outcomes[i])]))
    /\ UNCHANGED <<api_vars, cfg, nextId, prompt, response, invocations, searches, adapter,
                   userId, message_obj>>

tools_node == tools_step(ServedOutcomes)

LastAI_First(msgs) ==
    IF \E i \in 1..Len(msgs) : msgs[i].type = "ai"
    THEN CHOOSE i \in 1..Len(msgs) :
            msgs[i].type = "ai" /\ \A j \in 1..(i - 1) : msgs[j].type # "ai"
    ELSE 0

\* the last AIMessage of response["messages"], 0 if there is none
LastAI(msgs) ==
    IF \E i \in 1..Len(msgs) : msgs[i].type = "ai"
    THEN CHOOSE i \in 1..Len(msgs) :
            msgs[i].type = "ai" /\ \A j \in (i + 1)..Len(msgs) : msgs[j].type # "ai"
    ELSE 0

BaseResponse_EmptyAnswer(outcome, st) ==
    IF outcome = "error"
    THEN [status |-> 200, result |-> "success", text |-> <<>>]
    ELSE IF LastAI(st.messages) # 0
    THEN [status |-> 200, result |-> "success",
          text |-> st.messages[LastAI(st.messages)].content.text]
    ELSE [status |-> 400, result |-> "error", text |-> <<>>]

\* the BaseResponse of receive_message_endpoint: graph.ainvoke raised, or
\* it returned the channel values, also those of an interrupted run
BaseResponse(outcome, st) ==
    IF outcome = "error"
    THEN [status |-> 500, result |-> "error", text |-> <<>>]
    ELSE IF LastAI(st.messages) # 0
    THEN [status |-> 200, result |-> "success",
          text |-> st.messages[LastAI(st.messages)].content.text]
    ELSE [status |-> 400, result |-> "error", text |-> <<>>]

\* receive_message_endpoint once graph.ainvoke returned or raised
receive_message_response ==
    /\ pc \in {END, "error", "interrupted"}
    /\ response' = BaseResponse(pc, state)
    /\ pc' = "idle"
    /\ state' = EmptyState
    /\ cfg' = NoConfig
    /\ path' = <<>>
    /\ ret' = NoDelta
    /\ prompt' = <<>>
    /\ searches' = <<>>
    /\ adapter' = NoAdapter
    /\ message_obj' = NoMessage
    /\ node_input' = NoInput
    /\ UNCHANGED <<api_vars, checkpoint, executed, nextId, invocations, userId, backend>>

Init ==
    /\ checkpoint = [c \in Conversations |-> EmptyState]
    /\ state = EmptyState
    /\ cfg = NoConfig
    /\ pc = "idle"
    /\ path = <<>>
    /\ ret = NoDelta
    /\ executed = [id \in 1..MaxCallIds |-> 0]
    /\ nextId = 0
    /\ prompt = <<>>
    /\ response = NoResponse
    /\ invocations = 0
    /\ searches = <<>>
    /\ adapter = NoAdapter
    /\ userId = None
    /\ message_obj = NoMessage
    /\ backend = {}
    /\ node_input = NoInput
    /\ InitApi

Next ==
    \/ \E c \in Conversations, m \in UserTexts, p \in PreviousChoices :
          receive_message_endpoint(Owner(c), c, m, p)
    \/ rag_decision
    \/ generate_query_node
    \/ retrieve
    \/ agent
    \/ tools_node
    \/ receive_message_response

Spec == Init /\ [][Next]_vars

-----------------------------------------------------------------------------
(* One run of the graph from any input and run configuration *)

EndpointConfig(c) == [system |-> <<>>, frontend_tools |-> <<>>, thread_id |-> c]

GraphConfigs ==
    { EndpointConfig("c1") }
    \cup { [system |-> <<>>, frontend_tools |-> <<>>, thread_id |-> "c1", use_rag |-> b] :
              b \in BOOLEAN }

\* {"messages": inputs} as the endpoint builds it, the empty input, and an
\* input that ends with an assistant turn
GraphInputs ==
    { <<>> }
    \cup { <<HumanMessage(ListContent(<<TextPart(t)>>))>> : t \in UserTexts }
    \cup { previous_langchain_messages(History)
              \o <<HumanMessage(ListContent(<<TextPart(t)>>))>> : t \in UserTexts }
    \cup { previous_langchain_messages(History) }

\* channel values an earlier invocation of the thread left in the checkpoint
Checkpointed ==
    { EmptyState,
      [messages |-> <<HumanMessage(ListContent(<<TextPart(<<"n", "ee", "n", " ", "v", "a", "y">>)>>)),
                     AIMessage(StrContent(AnswerTo(1)), <<>>)>>,
       queries |-> << <<"n", "ee", "n", " ", "v", "a", "y">>, <<"v", "a", "y">> >>,
       need_rag |-> TRUE,
       rag_context |-> << <<"v", "a", "y">> >>,
       retrieved_docs |-> <<StoredDocs[1]>>] }

InitGraph ==
    /\ \E c \in GraphConfigs, ck \in Checkpointed, inputs \in GraphInputs :
          /\ cfg = c
          /\ state = AgentState(ck, [messages |-> inputs])
          /\ checkpoint = [t \in Conversations |-> IF t = c.thread_id THEN state ELSE EmptyState]
    /\ pc = "rag_decision"
    /\ path = <<>>
    /\ ret = NoDelta
    /\ executed = [id \in 1..MaxCallIds |-> 0]
    /\ nextId = 0
    /\ prompt = <<>>
    /\ response = NoResponse
    /\ invocations = 1
    /\ searches = <<>>
    /\ adapter = NoAdapter
    /\ userId = Owner(cfg.thread_id)
    /\ message_obj = RevicedMessageParse(userId, cfg.thread_id)
    /\ backend = {}
    /\ node_input = NoInput
    /\ InitApi

NextGraph ==
    \/ rag_decision
    \/ generate_query_node
    \/ retrieve
    \/ agent
    \/ tools_node

SpecGraph == InitGraph /\ [][NextGraph]_vars

\* ainvoke awaits every node it schedules: a run that can step does step
SpecGraphLive == SpecGraph /\ WF_vars(NextGraph)

-----------------------------------------------------------------------------
(* Requests served concurrently.  receive_message_endpoint is a coroutine   *)
(* and takes no lock: while one request awaits its graph run, the event     *)
(* loop starts the next.  Every run keeps the channel values it loaded and  *)
(* writes them to the checkpoint of its thread after each node.  Here       *)
(* state, cfg, pc, path, ret and response hold one value per request;       *)
(* prompt, searches and adapter are not recorded.                           *)

Requests == 1..MaxInvocations

InFlight(r) == pc[r] \notin {"idle", "done"}

InitConcurrent ==
    /\ checkpoint = [c \in Conversations |-> EmptyState]
    /\ state = [r \in Requests |-> EmptyState]
    /\ cfg = [r \in Requests |-> NoConfig]
    /\ pc = [r \in Requests |-> "idle"]
    /\ path = [r \in Requests |-> <<>>]
    /\ ret = [r \in Requests |-> NoDelta]
    /\ response = [r \in Requests |-> NoResponse]
    /\ executed = [id \in 1..MaxCallIds |-> 0]
    /\ nextId = 0
    /\ invocations = 0
    /\ prompt = <<>>
    /\ searches = <<>>
    /\ adapter = NoAdapter
    /\ userId = None
    /\ message_obj = [r \in Requests |-> NoMessage]
    /\ backend = {}
    /\ node_input = NoInput
    /\ InitApi

\* request r arrives: the endpoint builds the input and starts the run
request_arrives(r, user, conversation_id, message) ==
    /\ pc[r] = "idle"
    /\ invocations' = invocations + 1
    /\ message_obj' = [message_obj EXCEPT ![r] = RevicedMessageParse(user, conversation_id)]
    /\ userId' = message_obj'[r].userId
    /\ LET inputs == <<HumanMessage(ListContent(<<TextPart(message)>>))>>
           config == EndpointConfig(conversation_id)
       IN  /\ state' = [state EXCEPT ![r] =
                           AgentState(checkpoint[conversation_id], [messages |-> inputs])]
           /\ checkpoint' = [checkpoint EXCEPT ![conversation_id] = state'[r]]
           /\ cfg' = [cfg EXCEPT ![r] = config]
    /\ pc' = [pc EXCEPT ![r] = "rag_decision"]
    /\ UNCHANGED <<api_vars, path, ret, response, executed, nextId, prompt, searches, adapter,
                   backend, node_input>>

\* a node of the run of request r ran
RunStep(r, node, delta) ==
    /\ ret' = [ret EXCEPT ![r] = delta]
    /\ state' = [state EXCEPT ![r] = AgentState(state[r], delta)]
    /\ checkpoint' = [checkpoint EXCEPT ![cfg[r].thread_id] = state'[r]]
    /\ path' = [path EXCEPT ![r] = Append(path[r], node)]
    /\ pc' = [pc EXCEPT ![r] = workflow(node, state'[r])]

run_rag_decision(r) ==
    /\ pc[r] = "rag_decision"
    /\ RunStep(r, "rag_decision", should_use_rag(state[r], cfg[r]))
    /\ UNCHANGED <<api_vars, cfg, response, executed, nextId, invocations, prompt, searches, adapter,
                   userId, message_obj, backend, node_input>>

run_generate_query(r) ==
    /\ pc[r] = "generate_query"
    /\ RunStep(r, "generate_query", generate_query(state[r], cfg[r]))
    /\ UNCHANGED <<api_vars, cfg, response, executed, nextId, invocations, prompt, searches, adapter,
                   userId, message_obj, backend, node_input>>

run_retrieve(r) ==
    /\ pc[r] = "retrieve"
    /\ \E outcomes \in [1..Len(state[r].queries) -> SearchOutcomes] :
          RunStep(r, "retrieve", retrieve_knowledge(state[r], cfg[r], outcomes))
    /\ UNCHANGED <<api_vars, cfg, response, executed, nextId, invocations, prompt, searches, adapter,
                   userId, message_obj, backend, node_input>>

run_agent(r) ==
    /\ pc[r] = "agent"
    /\ \E o \in ModelOutcomes(cfg[r]) :
          IF calls_model(state[r]) /\ o.raised
          THEN /\ pc' = [pc EXCEPT ![r] = "error"]
               /\ path' = [path EXCEPT ![r] = Append(path[r], "agent")]
               /\ UNCHANGED <<checkpoint, state, ret, nextId>>
          ELSE /\ RunStep(r, "agent", call_model(state[r], cfg[r], Reply(o, state[r])))
               /\ nextId' = IF calls_model(state[r]) THEN nextId + Len(o.names) ELSE nextId
    /\ UNCHANGED <<api_vars, cfg, response, executed, invocations, prompt, searches, adapter,
                   userId, message_obj, backend, node_input>>

run_tools_node(r) ==
    /\ pc[r] = "tools"
    /\ LET calls == state[r].messages[Len(state[r].messages)].tool_calls
       IN  \E outcomes \in [1..Len(calls) -> ServedOutcomes],
              ran \in BackendCalls(state[r], cfg[r]) :
              /\ executed' = [id \in DOMAIN executed |->
                                 executed[id] + Cardinality({i \in ran : calls[i].id = id})]
              /\ backend' = backend \cup
                    UNION { { [id |-> calls[i].id, command |-> q.command,
                               user_id |-> q.user_id, by |-> message_obj[r].userId] :
                                 q \in Range(tool_requests(calls[i], cfg[r], userId, outcomes[i])) } :
                            i \in ran }
              /\ IF interrupts(state[r], cfg[r])
                 THEN /\ pc' = [pc EXCEPT ![r] = "interrupted"]
                      /\ path' = [path EXCEPT ![r] = Append(path[r], "tools")]
                      /\ UNCHANGED <<checkpoint, state, ret>>
                 ELSE RunStep(r, "tools", run_tools(state[r], cfg[r],
                         [i \in 1..Len(calls) |->
                             tool_output(calls[i], cfg[r], userId, outcomes[i])]))
    /\ UNCHANGED <<api_vars, cfg, response, nextId, invocations, prompt, searches, adapter,
                   userId, message_obj, node_input>>

\* the endpoint answers request r
request_answered(r) ==
    /\ pc[r] \in {END, "error", "interrupted"}
    /\ response' = [response EXCEPT ![r] = BaseResponse(pc[r], state[r])]
    /\ pc' = [pc EXCEPT ![r] = "done"]
    /\ UNCHANGED <<api_vars, checkpoint, state, cfg, path, ret, executed, nextId, invocations,
                   prompt, searches, adapter,
                   userId, message_obj, backend, node_input>>

NextConcurrent ==
    \E r \in Requests :
       \/ \E c \in Conversations, m \in UserTexts : request_arrives(r, Owner(c), c, m)
       \/ run_rag_decision(r)
       \/ run_generate_query(r)
       \/ run_retrieve(r)
       \/ run_agent(r)
       \/ run_tools_node(r)
       \/ request_answered(r)

SpecConcurrent == InitConcurrent /\ [][NextConcurrent]_vars

-----------------------------------------------------------------------------
(* One call of a node function on any state and run configuration *)

Alphabet == {"n", "N", "ee", "EE", " ", "x"}

Texts == SeqsUpTo(Alphabet, MaxTextLen)

Contents(t) ==
    { StrContent(t), ListContent(<<TextPart(t)>>) }
    \cup { ListContent(<<TextPart(SubSeq(t, 1, 1)), ImagePart, TextPart(SubSeq(t, 2, Len(t)))>>) :
              x \in (IF Len(t) >= 2 THEN {1} ELSE {}) }

LastMessages ==
    UNION { UNION { { HumanMessage(c), AIMessage(c, <<>>), SystemMessage(c), ToolMessage(c, 1) } :
                      c \in Contents(t) } : t \in Texts }

NodeStates ==
    { EmptyState }
    \cup { AgentState(ck, [messages |-> <<m>>]) : ck \in Checkpointed, m \in LastMessages }

InitNode ==
    /\ state \in NodeStates
    /\ cfg \in GraphConfigs
    /\ pc = "node_call"
    /\ checkpoint = [t \in Conversations |-> EmptyState]
    /\ path = <<>>
    /\ ret = NoDelta
    /\ executed = [id \in 1..MaxCallIds |-> 0]
    /\ nextId = 0
    /\ prompt = <<>>
    /\ response = NoResponse
    /\ invocations = 0
    /\ searches = <<>>
    /\ adapter = NoAdapter
    /\ userId = None
    /\ message_obj = NoMessage
    /\ backend = {}
    /\ node_input = NoInput
    /\ InitApi

apply_should_use_rag ==
    /\ pc = "node_call"
    /\ ret' = should_use_rag(state, cfg)
    /\ pc' = "node_done"
    /\ node_input' = Held(state_after("rag_decision", state, ret'))
    /\ UNCHANGED <<api_vars, checkpoint, state, cfg, path, executed, nextId, prompt, response,
                   invocations, searches, adapter, userId, message_obj, backend>>

NextNode == apply_should_use_rag

SpecNode == InitNode /\ [][NextNode]_vars

-----------------------------------------------------------------------------
(* One call of generate_query on any user text *)

\* words of a user text: two filler words ("xin", "hay"), a knowledge
\* keyword ("nen"), two financial terms ("vay", "no"), one of them also in
\* upper case, and a word that is none of these
QueryWords ==
    { <<"x", "i", "n">>, <<"h", "ax", "y">>, <<"n", "ee", "n">>, <<"v", "a", "y">>,
      <<"n", "owj">>, <<"V", "A", "Y">>, <<"a">> }

\* the words joined by single spaces
QueryTexts == { JoinSpace(ws) : ws \in SeqsUpTo(QueryWords, MaxWords) \ { <<>> } }

\* rag_decision cleared the queries before generate_query runs
QueryStates ==
    { AgentState(EmptyState, [messages |-> <<HumanMessage(c)>>, need_rag |-> TRUE]) :
         c \in UNION { { StrContent(t), ListContent(<<TextPart(t)>>) } : t \in QueryTexts } }

InitQuery ==
    /\ state \in QueryStates
    /\ cfg = EndpointConfig("c1")
    /\ pc = "node_call"
    /\ checkpoint = [t \in Conversations |-> EmptyState]
    /\ path = <<>>
    /\ ret = NoDelta
    /\ executed = [id \in 1..MaxCallIds |-> 0]
    /\ nextId = 0
    /\ prompt = <<>>
    /\ response = NoResponse
    /\ invocations = 0
    /\ searches = <<>>
    /\ adapter = NoAdapter
    /\ userId = None
    /\ message_obj = NoMessage
    /\ backend = {}
    /\ node_input = NoInput
    /\ InitApi

apply_generate_query ==
    /\ pc = "node_call"
    /\ ret' = generate_query(state, cfg)
    /\ pc' = "node_done"
    /\ node_input' = Held(state_after("generate_query", state, ret'))
    /\ UNCHANGED <<api_vars, checkpoint, state, cfg, path, executed, nextId, prompt, response,
                   invocations, searches, adapter, userId, message_obj, backend>>

NextQuery == apply_generate_query

SpecQuery == InitQuery /\ [][NextQuery]_vars

-----------------------------------------------------------------------------
(* One call of retrieve_knowledge on any queries and retriever outcomes *)

\* the matches of a query: up to top_k stored chunks in any order, or every
\* stored chunk
Answers == SeqsUpTo(Range(StoredDocs), top_k) \cup {StoredDocs}

RetrieveOutcomes ==
    { [raised |-> TRUE, escapes |-> FALSE, docs |-> <<>>],
      [raised |-> FALSE, escapes |-> TRUE, docs |-> <<>>] }
    \cup { [raised |-> FALSE, escapes |-> FALSE, docs |-> d] : d \in Answers }

\* state["queries"] as generate_query leaves it, and with an upper-case
\* first query
QuerySeqs ==
    { <<>>,
      << <<"n", "ee", "n", " ", "v", "a", "y">> >>,
      << <<"n", "ee", "n", " ", "v", "a", "y">>, <<"v", "a", "y">> >>,
      << <<"V", "A", "Y">>, <<"n", "ee", "n", " ", "v", "a", "y">> >> }

InitRetrieve ==
    /\ \E qs \in QuerySeqs :
          /\ state = AgentState(EmptyState, [queries |-> qs, need_rag |-> TRUE])
          /\ searches \in [1..Len(qs) -> RetrieveOutcomes]
    /\ cfg = EndpointConfig("c1")
    /\ pc = "node_call"
    /\ checkpoint = [t \in Conversations |-> EmptyState]
    /\ path = <<>>
    /\ ret = NoDelta
    /\ executed = [id \in 1..MaxCallIds |-> 0]
    /\ nextId = 0
    /\ prompt = <<>>
    /\ response = NoResponse
    /\ invocations = 0
    /\ adapter = NoAdapter
    /\ userId = None
    /\ message_obj = NoMessage
    /\ backend = {}
    /\ node_input = NoInput
    /\ InitApi

apply_retrieve_knowledge ==
    /\ pc = "node_call"
    /\ ret' = retrieve_knowledge(state, cfg, searches)
    /\ adapter' = with_make_retriever(state, searches)
    /\ pc' = "node_done"
    /\ node_input' = Held(state_after("retrieve", state, ret'))
    /\ UNCHANGED <<api_vars, checkpoint, state, cfg, path, executed, nextId, prompt, response,
                   invocations, searches, userId, message_obj, backend>>

NextRetrieve == apply_retrieve_knowledge

SpecRetrieve == InitRetrieve /\ [][NextRetrieve]_vars

-----------------------------------------------------------------------------
(* One run of the tools node on any pending calls, with any answer of the   *)
(* backend                                                                  *)

\* a tool the caller declares in frontend_tools of the run configuration
FrontendName == "frontend_tool"

FrontendConfig(c) == [system |-> <<>>, frontend_tools |-> <<FrontendName>>, thread_id |-> c]

\* names the language model puts into a tool call: the backend tools, the
\* frontend tool, and a name nobody declared
CalledNames == Range(tools) \cup {FrontendName, "unknown_tool"}

PendingCalls ==
    { [i \in 1..Len(ns) |-> [id |-> i, name |-> ns[i]]] :
         ns \in SeqsUpTo(CalledNames, MaxCallIds) \ { <<>> } }

InitTools ==
    /\ cfg \in { EndpointConfig("c1"), FrontendConfig("c1") }
    /\ \E calls \in PendingCalls :
          /\ ret = [messages |-> <<AIMessage(StrContent(AnswerTo(1)), calls)>>]
          /\ state = AgentState(EmptyState,
                         [messages |-> <<HumanMessage(ListContent(<<TextPart(<<"x", "i", "n">>)>>))>>
                                          \o ret.messages])
          /\ nextId = Len(calls)
    /\ checkpoint = [t \in Conversations |-> IF t = cfg.thread_id THEN state ELSE EmptyState]
    /\ pc = "tools"
    /\ path = <<"rag_decision", "agent">>
    /\ executed = [id \in 1..MaxCallIds |-> 0]
    /\ prompt = <<>>
    /\ response = NoResponse
    /\ invocations = 1
    /\ searches = <<>>
    /\ adapter = NoAdapter
    /\ userId \in {None, "", Owner(cfg.thread_id)}
    /\ message_obj = RevicedMessageParse(userId, cfg.thread_id)
    /\ backend = {}
    /\ node_input = NoInput
    /\ InitApi

apply_run_tools == tools_step(BackendOutcomes)

NextTools == apply_run_tools

SpecTools == InitTools /\ [][NextTools]_vars

-----------------------------------------------------------------------------
(* One request served by a graph whose run configuration declares a         *)
(* frontend tool                                                            *)

InitFrontend ==
    /\ cfg = FrontendConfig("c1")
    /\ \E t \in UserTexts :
          state = AgentState(EmptyState,
                     [messages |-> <<HumanMessage(ListContent(<<TextPart(t)>>))>>])
    /\ checkpoint = [t \in Conversations |-> IF t = cfg.thread_id THEN state ELSE EmptyState]
    /\ pc = "rag_decision"
    /\ path = <<>>
    /\ ret = NoDelta
    /\ executed = [id \in 1..MaxCallIds |-> 0]
    /\ nextId = 0
    /\ prompt = <<>>
    /\ response = NoResponse
    /\ invocations = 1
    /\ searches = <<>>
    /\ adapter = NoAdapter
    /\ userId = Owner(cfg.thread_id)
    /\ message_obj = RevicedMessageParse(userId, cfg.thread_id)
    /\ backend = {}
    /\ node_input = NoInput
    /\ InitApi

NextFrontend ==
    \/ rag_decision
    \/ generate_query_node
    \/ retrieve
    \/ agent
    \/ tools_node
    \/ receive_message_response

SpecFrontend == InitFrontend /\ [][NextFrontend]_vars

-----------------------------------------------------------------------------
(* Requests of a caller that keeps the conversation and sends its earlier   *)
(* turns as PreviousMessages with every request                             *)

\* the user turn a request added: convert_to_langchain_messages keeps the
\* list content of the new message, history copies have string content
IsNewTurn(msg) == msg.type = "human" /\ msg.content.kind = "list"

\* the turns the caller has seen in the messages msgs[i..]: the Message of
\* every request and the answer of every success response
RECURSIVE TurnsFrom(_, _)
TurnsFrom(msgs, i) ==
    IF i > Len(msgs) THEN <<>>
    ELSE LET msg == msgs[i]
             answered == /\ msg.type = "ai"
                         /\ msg.tool_calls = <<>>
                         /\ (i = Len(msgs) \/ IsNewTurn(msgs[i + 1]))
         IN  (IF IsNewTurn(msg)
              THEN <<[Role |-> "user", Content |-> get_message_text(msg)]>>
              ELSE IF answered
              THEN <<[Role |-> "bot", Content |-> msg.content.text]>>
              ELSE <<>>)
             \o TurnsFrom(msgs, i + 1)

EarlierTurns(c) == TurnsFrom(checkpoint[c].messages, 1)

NextHistory ==
    \/ \E c \in Conversations, m \in UserTexts :
          receive_message_endpoint(Owner(c), c, m, EarlierTurns(c))
    \/ rag_decision
    \/ generate_query_node
    \/ retrieve
    \/ agent
    \/ tools_node
    \/ receive_message_response

SpecHistory == Init /\ [][NextHistory]_vars

-----------------------------------------------------------------------------
(* The knowledge routes: uploads and deletions on a collection that may     *)
(* hold chunks of documents stored by an earlier process                    *)

\* the variables of the chat endpoint and the graph
chat_vars == <<checkpoint, state, cfg, pc, path, ret, executed, nextId, prompt,
               response, invocations, searches, adapter, userId, message_obj,
               backend, node_input>>

InitKnowledge ==
    /\ checkpoint = [c \in Conversations |-> EmptyState]
    /\ state = EmptyState
    /\ cfg = NoConfig
    /\ pc = "idle"
    /\ path = <<>>
    /\ ret = NoDelta
    /\ executed = [id \in 1..MaxCallIds |-> 0]
    /\ nextId = 0
    /\ prompt = <<>>
    /\ response = NoResponse
    /\ invocations = 0
    /\ searches = <<>>
    /\ adapter = NoAdapter
    /\ userId = None
    /\ message_obj = NoMessage
    /\ backend = {}
    /\ node_input = NoInput
    /\ document_metadata = <<>>
    /\ points \in [DocumentIds -> 0..1]
    /\ temp_files = {}
    /\ api_call = NoCall
    /\ api_response = NoApiResponse

\* uuid4 gives an id no document has
FreshIds == {d \in DocumentIds : d \notin DOMAIN document_metadata /\ points[d] = 0}

\* POST /knowledge/upload
upload_document ==
    \E o \in UploadOutcomes, d \in FreshIds :
       LET result == process_and_store_document(document_metadata, points, temp_files, d, o)
       IN  /\ document_metadata' = result.document_metadata
           /\ points' = result.points
           /\ temp_files' = result.temp_files
           /\ api_call' = [route |-> "upload", document_id |-> d, met |-> o.met,
                           chunks |-> o.chunks]
           /\ api_response' = DocumentResponse(result)
           /\ UNCHANGED chat_vars

\* DELETE /knowledge/delete/{document_id}
delete_document_endpoint ==
    \E o \in DeleteOutcomes, d \in DocumentIds :
       LET result == delete_document(document_metadata, points, d, o)
       IN  /\ document_metadata' = result.document_metadata
           /\ points' = result.points
           /\ api_call' = [route |-> "delete", document_id |-> d, met |-> o,
                           chunks |-> points[d],
                           entry |-> d \in DOMAIN document_metadata]
           /\ api_response' = DocumentDeleteResponse(result.value)
           /\ UNCHANGED <<chat_vars, temp_files>>

NextKnowledge == upload_document \/ delete_document_endpoint

SpecKnowledge == InitKnowledge /\ [][NextKnowledge]_vars

-----------------------------------------------------------------------------
(* One request to the suggestion route on any catalog and any answer of the *)
(* language model                                                           *)

ModelNames == {"jars", "50-30-20", "80-20"}

\* catalogs the finance backend serves; in the last one two entries share
\* their name
Catalogs ==
    { <<>>,
      << SpendingModel("1", "jars", "six jars") >>,
      << SpendingModel("1", "jars", "six jars"), SpendingModel("2", "50-30-20", "needs") >>,
      << SpendingModel("1", "jars", "six jars"), SpendingModel("2", "50-30-20", "needs"),
         SpendingModel("3", "80-20", "save first") >>,
      << SpendingModel("1", "jars", "six jars"), SpendingModel("2", "50-30-20", "needs"),
         SpendingModel("4", "jars", "jars again") >> }

\* get_spending_models: the catalog, an HTTP error, or a body without "data"
Fetches ==
    { [met |-> "ok", catalog |-> c] : c \in Catalogs }
    \cup { [met |-> m, catalog |-> <<>>] : m \in {"http_error", "bad_format"} }

\* analyze_user_profile: the parsed answer of the language model
Analyses ==
    { Unparsed }
    \cup { [parsed |-> TRUE, recommended_model_name |-> r, alternative_model_names |-> a,
            reasoning |-> <<"reasoning">>] :
              r \in ModelNames \cup {"other"}, a \in SUBSET ModelNames }

SuggestionRequests == {"pairs", "invalid_json", "no_pairs"}

InitSuggestion ==
    /\ checkpoint = [c \in Conversations |-> EmptyState]
    /\ state = EmptyState
    /\ cfg = NoConfig
    /\ pc = "node_call"
    /\ path = <<>>
    /\ ret = NoDelta
    /\ executed = [id \in 1..MaxCallIds |-> 0]
    /\ nextId = 0
    /\ prompt = <<>>
    /\ response = NoResponse
    /\ invocations = 0
    /\ searches = <<>>
    /\ adapter = NoAdapter
    /\ userId = None
    /\ message_obj = NoMessage
    /\ backend = {}
    /\ node_input = NoInput
    /\ document_metadata = <<>>
    /\ points = [d \in DocumentIds |-> 0]
    /\ temp_files = {}
    /\ \E q \in SuggestionRequests, f \in Fetches, a \in Analyses :
          api_call = [route |-> "suggestion", request |-> q, fetch |-> f, analysis |-> a]
    /\ api_response = NoApiResponse

\* POST /api/suggestion
suggest_spending_model ==
    /\ pc = "node_call"
    /\ api_response' = suggest_spending_model_response(api_call.request, api_call.fetch,
                                                       api_call.analysis)
    /\ pc' = "node_done"
    /\ UNCHANGED <<checkpoint, state, cfg, path, ret, executed, nextId, prompt, response,
                   invocations, searches, adapter, userId, message_obj, backend,
                   node_input, document_metadata, points, temp_files, api_call>>

NextSuggestion == suggest_spending_model

SpecSuggestion == InitSuggestion /\ [][NextSuggestion]_vars

-----------------------------------------------------------------------------
(* Properties *)

LastNode == IF path = <<>> THEN "none" ELSE path[Len(path)]

LastMessage(st) == st.messages[Len(st.messages)]

\* the most recent message requests no tool call, or there is no message
NoPendingCalls(st) == st.messages = <<>> \/ Len(LastMessage(st).tool_calls) = 0

\* a knowledge keyword occurs in the text, letters compared without case
KeywordOccurs(text) ==
    \E k \in 1..Len(knowledge_keywords) :
       LET kw == knowledge_keywords[k]
       IN  \E off \in 0..(Len(text) - Len(kw)) :
              \A j \in 1..Len(kw) : LowerChar(text[off + j]) = kw[j]

\* C1: after every agent step the Router sends the graph to the terminal
\* state when the most recent message has no pending tool call or there is
\* no message, and to the tools node otherwise; it has no other outcome.
C1_RouterRule ==
    /\ should_continue(state) \in {END, "tools"}
    /\ (LastNode = "agent" /\ pc # "error")
          => pc = (IF NoPendingCalls(state) THEN END ELSE "tools")

C1_Witness ==
    /\ LastNode = "agent"
    /\ pc = "tools"
    /\ Len(LastMessage(state).tool_calls) = 2

\* C2: the terminal state is entered only from the agent node, by a step
\* that leaves a last message without pending tool calls; no other node
\* leads to it.
C2_TerminalOnlyFromAgent ==
    [][(pc # END /\ pc' = END)
          => (pc = "agent" /\ path' = Append(path, "agent") /\ NoPendingCalls(state'))]_vars

C2_Witness ==
    /\ pc = END
    /\ \E i \in 1..Len(path) : path[i] = "tools"
    /\ \E i \in 1..Len(path) : path[i] = "retrieve"

\* C3: rag_decision runs first and once; with need_rag the nodes that follow
\* are generate_query, retrieve, agent, in that order and once each; without
\* it agent follows and generate_query and retrieve never run; the agent/tools
\* loop never goes back to them.
C3_NodeOrder ==
    /\ (pc = "rag_decision") => path = <<>>
    /\ (path = <<>>) => pc \in {"rag_decision", "idle", "node_call", "node_done"}
    /\ path # <<>> =>
          /\ path[1] = "rag_decision"
          /\ \A i \in 2..Len(path) : path[i] # "rag_decision"
          /\ IF state.need_rag
             THEN /\ Len(path) >= 2 => path[2] = "generate_query"
                  /\ Len(path) >= 3 => path[3] = "retrieve"
                  /\ Len(path) >= 4 => path[4] = "agent"
                  /\ \A i \in 4..Len(path) : path[i] \in {"agent", "tools"}
                  /\ Len(path) = 1 => pc = "generate_query"
                  /\ Len(path) = 2 => pc = "retrieve"
                  /\ Len(path) = 3 => pc = "agent"
             ELSE /\ \A i \in 2..Len(path) : path[i] \in {"agent", "tools"}
                  /\ Len(path) >= 2 => path[2] = "agent"
                  /\ Len(path) = 1 => pc = "agent"

C3_Witness ==
    /\ pc = END
    /\ path = <<"rag_decision", "generate_query", "retrieve", "agent", "tools", "agent">>

\* C4: every tools step is followed at once by an agent step; the graph
\* goes neither to the terminal state nor anywhere else after the tools.
C4_ToolsThenAgent ==
    /\ \A i \in 1..(Len(path) - 1) : path[i] = "tools" => path[i + 1] = "agent"
    /\ LastNode = "tools" => pc = "agent"

C4_Witness ==
    /\ LastNode = "tools"
    /\ \E i \in 1..(Len(path) - 1) : path[i] = "tools"

\* C5: when the latest message is a user turn and use_rag is true, need_rag
\* is true exactly when a knowledge keyword occurs in the lower-cased text of
\* that turn; the rest of the state has no influence.
C5_KeywordDecides ==
    (pc = "node_done" /\ state.messages # <<>> /\ LastMessage(state).type = "human"
       /\ use_rag(cfg))
    => (ret.need_rag <=> KeywordOccurs(get_message_text(LastMessage(state))))

C5_Witness ==
    /\ pc = "node_done"
    /\ state.messages # <<>>
    /\ LastMessage(state).type = "human"
    /\ use_rag(cfg)
    /\ ret.need_rag
    /\ get_message_text(LastMessage(state)) = <<"N", "ee", "N">>
    /\ state.retrieved_docs # <<>>

\* C6: when there is no message, or the latest message is not a user turn,
\* should_use_rag returns need_rag false and no queries, whatever the
\* messages hold and whatever use_rag is.
C6_NoUserTurn ==
    (pc = "node_done" /\ (state.messages = <<>> \/ LastMessage(state).type # "human"))
    => (ret.need_rag = FALSE /\ ret.queries = <<>> /\ DOMAIN ret = {"need_rag", "queries"})

C6_Witness ==
    /\ pc = "node_done"
    /\ state.messages # <<>>
    /\ LastMessage(state).type = "ai"
    /\ KeywordOccurs(get_message_text(LastMessage(state)))
    /\ use_rag(cfg)

\* C7: with use_rag false need_rag is false for every history, and while
\* need_rag is false the queries of the state are empty from the end of
\* rag_decision to the end of the invocation.
C7_RagSkipped ==
    /\ (path # <<>> /\ ~use_rag(cfg)) => ~state.need_rag
    /\ (path # <<>> /\ ~state.need_rag) => state.queries = <<>>

C7_Witness ==
    /\ pc = END
    /\ ~use_rag(cfg)
    /\ \E i \in 1..Len(state.messages) :
          /\ state.messages[i].type = "human"
          /\ \A j \in (i + 1)..Len(state.messages) : state.messages[j].type # "human"
          /\ KeywordOccurs(get_message_text(state.messages[i]))
          /\ i > 1
    /\ \E i \in 1..Len(path) : path[i] = "tools"

\* C8: when RAG is skipped, rag_context and retrieved_docs are empty when the
\* language model is invoked and the system prompt carries no knowledge-base
\* block, also in a later invocation of a conversation whose earlier
\* invocation retrieved documents.
C8_NoContextWhenSkipped ==
    (pc = "agent" /\ ~state.need_rag)
    => /\ state.rag_context = <<>>
       /\ state.retrieved_docs = <<>>
       /\ enhanced_system(state, cfg) = DEFAULT_SYSTEM_PROMPT

\* the documents the retriever returned, query after query
Returned ==
    Concat([i \in 1..Len(searches) |-> retriever(searches[i]).docs])

\* position in Returned of the first document with this text
FirstSeen(text) ==
    CHOOSE k \in 1..Len(Returned) :
       /\ Returned[k].page_content = text
       /\ \A m \in 1..(k - 1) : Returned[m].page_content # text

\* C11: retrieved_docs holds every distinct page_content some query returned
\* exactly once, represented by the first document seen with that text, and
\* rag_context holds the texts of retrieved_docs.
C11_Dedup ==
    (pc = "node_done" /\ adapter.raised = "none")
    => LET out == ret.retrieved_docs
       IN  /\ \A i, j \in 1..Len(out) :
                 i # j => out[i].page_content # out[j].page_content
           /\ {out[i].page_content : i \in 1..Len(out)}
                 = {Returned[k].page_content : k \in 1..Len(Returned)}
           /\ \A i \in 1..Len(out) : out[i] = Returned[FirstSeen(out[i].page_content)]
           /\ ret.rag_context = [i \in 1..Len(out) |-> out[i].page_content]

C11_Witness ==
    /\ pc = "node_done"
    /\ adapter.raised = "none"
    /\ Len(searches) = 2
    /\ Len(ret.retrieved_docs) = 2
    /\ Len(Returned) = 5
    /\ \E k \in 1..Len(Returned) : Returned[k] = StoredDocs[1]
    /\ \E k \in 1..Len(Returned) :
          Returned[k] = StoredDocs[3] /\ FirstSeen(StoredDocs[3].page_content) < k
    /\ searches[1].docs # <<>> /\ searches[2].docs # <<>>

\* the lower-cased whitespace-separated terms of a text
Terms(text) ==
    LET l == [i \in 1..Len(text) |-> LowerChar(text[i])]
    IN  { SubSeq(l, a, b) : <<a, b>> \in
             { ab \in (1..Len(l)) \X (1..Len(l)) :
                  /\ ab[1] <= ab[2]
                  /\ \A k \in ab[1]..ab[2] : ~IsSpace(l[k])
                  /\ (ab[1] = 1 \/ IsSpace(l[ab[1] - 1]))
                  /\ (ab[2] = Len(l) \/ IsSpace(l[ab[2] + 1])) } }

Overlap(query, doc) == Cardinality(Terms(query) \cap Terms(doc.page_content))

\* C12: with more than one accepted document, retrieved_docs is ordered by
\* non-increasing term overlap with the first query, and documents of equal
\* overlap keep the order in which they were accepted.
C12_Ranked ==
    (pc = "node_done" /\ adapter.raised = "none" /\ Len(ret.retrieved_docs) > 1)
    => LET out == ret.retrieved_docs
           main_query == state.queries[1]
       IN  \A i, j \in 1..Len(out) :
              i < j =>
                 /\ Overlap(main_query, out[i]) >= Overlap(main_query, out[j])
                 /\ Overlap(main_query, out[i]) = Overlap(main_query, out[j])
                       => FirstSeen(out[i].page_content) < FirstSeen(out[j].page_content)

C12_Witness ==
    /\ pc = "node_done"
    /\ adapter.raised = "none"
    /\ Len(state.queries) = 2
    /\ state.queries[1] # state.queries[2]
    /\ ret.retrieved_docs = <<StoredDocs[2], StoredDocs[4], StoredDocs[1]>>
    /\ FirstSeen(StoredDocs[2].page_content) > FirstSeen(StoredDocs[1].page_content)

\* C13: when a retriever call raises, also after earlier calls returned
\* documents, retrieve_knowledge returns empty rag_context and retrieved_docs
\* and raises nothing: the graph goes on to the agent with no context, and
\* only a failure of the language model ends the invocation with an error.
\* The same holds when the similarity search fails on every query.
C13_RetrievalFailure ==
    (searches # <<>>
       /\ \/ \E i \in 1..Len(searches) : searches[i].escapes
          \/ \A i \in 1..Len(searches) : searches[i].raised)
    => /\ state.rag_context = <<>>
       /\ state.retrieved_docs = <<>>
       /\ pc \in {"agent", "tools", END, "error"}
       /\ pc = "error" => LastNode = "agent"
       /\ LastNode = "retrieve"
             => /\ pc = "agent"
                /\ ret = [rag_context |-> <<>>, retrieved_docs |-> <<>>]

C13_Witness ==
    /\ pc = END
    /\ Len(searches) = 2
    /\ searches[1].docs # <<>>
    /\ searches[2].escapes
    /\ LastMessage(state).type = "ai"
    /\ state.retrieved_docs = <<>>

\* C14: make_retriever hands the consumer a callable and the consumer never
\* sees an exception of the adapter itself; when the except clause yields the
\* fallback retriever, the consumer gets it.
C14_AdapterNeverRaises ==
    /\ adapter.raised = "none"
    /\ adapter.yields = 2 => adapter.handed = "fallback_retriever"

\* the text of the user turn a node function works on
UserText == get_message_text(LastMessage(state))

\* C15 as claimed: after generate_query no entry of queries is shorter than
\* half the user text.
C15_NoShortQuery ==
    (pc = "node_done")
    => \A i \in 1..Len(ret.queries) : 2 * Len(ret.queries[i]) >= Len(UserText)

\* C15 as amended: the first query appended by generate_query is the user
\* text itself or the filler-stripped text, and it is never shorter than half
\* the user text; the keyword query that may follow can be shorter.
C15_FirstQueryHalf ==
    (pc = "node_done")
    => LET q == ret.queries[1]
       IN  /\ 2 * Len(q) >= Len(UserText)
           /\ q = UserText \/ q = StripFillers(UserText, 1)

C15_Witness ==
    /\ pc = "node_done"
    /\ UserText = <<"h", "ax", "y", " ", "v", "a", "y", " ", "a">>
    /\ ret.queries = << <<"v", "a", "y", " ", "a">>, <<"v", "a", "y">> >>

\* C16: once generate_query ran in an invocation, queries holds one or two
\* entries, those generate_query returned, also when an earlier invocation
\* of the conversation left queries in the checkpoint.
C16_OneOrTwoQueries ==
    (\E i \in 1..Len(path) : path[i] = "generate_query")
    => /\ Len(state.queries) \in {1, 2}
       /\ LastNode = "generate_query" => ret.queries = state.queries

C16_Witness ==
    /\ invocations = 2
    /\ LastNode = "generate_query"
    /\ Len(state.queries) = 2
    /\ state.retrieved_docs # <<>>

\* the financial term occurs in the text, letters compared without case
TermOccurs(text, k) ==
    LET term == financial_terms[k]
    IN  \E off \in 0..(Len(text) - Len(term)) :
           \A j \in 1..Len(term) : LowerChar(text[off + j]) = term[j]

\* the members of a set of numbers in increasing order
RECURSIVE Ascending(_)
Ascending(S) ==
    IF S = {} THEN <<>>
    ELSE LET least == CHOOSE x \in S : \A y \in S : x <= y
         IN  <<least>> \o Ascending(S \ {least})

\* C17: generate_query appends a second query exactly when a financial term
\* occurs in the lower-cased user text, and that query is the matched terms
\* joined by spaces in the order of the fixed list.
C17_KeywordQuery ==
    (pc = "node_done")
    => LET matched == Ascending({k \in 1..Len(financial_terms) : TermOccurs(UserText, k)})
       IN  /\ Len(ret.queries) = (IF matched = <<>> THEN 1 ELSE 2)
           /\ matched # <<>>
                 => ret.queries[2]
                      = JoinSpace([i \in 1..Len(matched) |-> financial_terms[matched[i]]])

C17_Witness ==
    /\ pc = "node_done"
    /\ UserText = <<"n", "owj", " ", "V", "A", "Y">>
    /\ ret.queries[2] = <<"v", "a", "y", " ", "n", "owj">>

\* tools steps an invocation ran so far
ToolSteps == Cardinality({i \in 1..Len(path) : path[i] = "tools"})

C20_OneInFlight ==
    \A r1, r2 \in Requests :
       (r1 # r2 /\ InFlight(r1) /\ InFlight(r2)) => cfg[r1].thread_id # cfg[r2].thread_id

\* C21: requests of different conversations served concurrently are safe
\* with respect to the user: every request a tool sends to the backend on
\* behalf of a user carries the userId of the request being served, never
\* that of another request.
C21_OwnUserId ==
    \A b \in backend : b.user_id # None => b.user_id = b.by

\* C22: when the call of the language model raises, the invocation ends
\* there and the caller receives the error response, status 500 with status
\* field "error"; it never receives a success response with an empty answer.
C22_ModelFailureReported ==
    [][/\ (pc = "agent" /\ pc' = "error") => (calls_model(state) /\ state' = state)
       /\ (pc = "error")
             => /\ pc' = "idle"
                /\ response' = [status |-> 500, result |-> "error", text |-> <<>>]
       /\ (response'.result = "success" /\ response # response')
             => pc \in {END, "interrupted"}]_vars

C22_Witness ==
    /\ pc = "idle"
    /\ response.status = 500
    /\ response.result = "error"
    /\ \E c \in Conversations :
          /\ Len(checkpoint[c].messages) = 3
          /\ checkpoint[c].messages[3].type = "tool"

\* C23: when an invocation fails at the call of the language model, the
\* history checkpointed for the conversation stays as it was before the
\* failing step, also while the error is reported, and the next invocation
\* of the conversation starts from that history followed by its own input.
C23_HistoryIntact ==
    [][/\ (pc = "agent" /\ pc' = "error")
             => (checkpoint' = checkpoint /\ checkpoint[cfg.thread_id] = state)
       /\ (pc = "error" /\ pc' = "idle") => checkpoint' = checkpoint
       /\ (pc = "idle" /\ pc' = "rag_decision")
             => LET before == checkpoint[cfg'.thread_id].messages
                IN  /\ Len(state'.messages) = Len(before) + 1
                    /\ SubSeq(state'.messages, 1, Len(before)) = before]_vars

C23_Witness ==
    /\ invocations = 2
    /\ pc = "rag_decision"
    /\ Len(state.messages) = 4
    /\ state.messages[2].tool_calls # <<>>
    /\ state.messages[3].type = "tool"
    /\ state.messages[4].type = "human"

\* the calls of the assistant message the tools node last worked on
Pending == state.messages[LastAI(state.messages)].tool_calls

\* C24: a failure of the backend is recovered inside the tool: when a
\* request of a backend tool is answered with a failure status or not at
\* all, the Tool Result of the call is the failure string the tool returned,
\* never the rendering of an exception the tool raised, and the graph goes
\* on to the agent.
C24_ToolFailureRecovered ==
    (LastNode = "tools" /\ pc # "interrupted")
    => /\ pc = "agent"
       /\ \A i \in 1..Len(Pending) :
             Pending[i].name \in Range(tools)
                => ret.messages[i].content.text[1] # "Error: "

C26_FrontendNeverRuns ==
    (LastNode = "tools"
       /\ \E i \in 1..Len(Pending) : Pending[i].name \in Range(cfg.frontend_tools))
    => /\ pc = "interrupted"
       /\ LastAI(state.messages) = Len(state.messages)
       /\ checkpoint[cfg.thread_id] = state
       /\ \A i \in 1..Len(Pending) :
             Pending[i].name \in Range(cfg.frontend_tools)
                => /\ executed[Pending[i].id] = 0
                   /\ \A b \in backend : b.id # Pending[i].id

C26_Witness ==
    /\ LastNode = "tools"
    /\ pc = "interrupted"
    /\ Len(Pending) = 2
    /\ Pending[1].name = "user_input_expense"
    /\ Pending[2].name = FrontendName
    /\ executed[1] = 1
    /\ \E b \in backend : b.id = 1 /\ b.command = "create_transaction_v2"

C28_FinalAnswer ==
    [][(pc = END /\ pc' = "idle")
          => /\ state.messages # <<>>
             /\ LastMessage(state).type = "ai"
             /\ LastMessage(state).tool_calls = <<>>
             /\ response' = [status |-> 200, result |-> "success",
                             text |-> LastMessage(state).content.text]]_vars

C28_Witness ==
    /\ pc = "idle"
    /\ response.result = "success"
    /\ \E c \in Conversations :
          LET msgs == checkpoint[c].messages
          IN  /\ Cardinality({i \in 1..Len(msgs) : msgs[i].type = "ai"}) = 3
              /\ \E i \in 1..Len(msgs) : msgs[i].type = "tool"
              /\ response.text = msgs[Len(msgs)].content.text
              /\ \A i \in 1..(Len(msgs) - 1) :
                    msgs[i].type = "ai" => msgs[i].content.text # response.text

\* C29: call_model on an empty message list calls no language model and
\* returns the system message with the effective system prompt as its only
\* message; the Router then ends the invocation.
C29_EmptyHistory ==
    [][(pc = "agent" /\ state.messages = <<>>)
          => /\ ret' = [messages |-> <<SystemMessage(StrContent(enhanced_system(state, cfg)))>>]
             /\ state'.messages = ret'.messages
             /\ prompt' = prompt
             /\ nextId' = nextId
             /\ pc' = END]_vars

C29_Witness ==
    /\ pc = END
    /\ path = <<"rag_decision", "agent">>
    /\ state.messages = <<SystemMessage(StrContent(DEFAULT_SYSTEM_PROMPT))>>
    /\ prompt = <<>>

\* C30: no node changes the state object it is handed: after every node the
\* messages and queries that object holds are those it held before, the
\* prompt of the language model is the effective system prompt followed by
\* the messages in order, and the returned messages are appended.
C30_NoInPlaceMutation ==
    [][(path' # path /\ path' # <<>>)
          => /\ node_input' = Held(state)
             /\ \/ state' = state
                \/ /\ state'.messages = state.messages
                         \o (IF "messages" \in DOMAIN ret' THEN ret'.messages ELSE <<>>)
                   /\ "queries" \in DOMAIN ret' => state'.queries = ret'.queries
             /\ (pc = "agent" /\ state.messages # <<>>)
                   => prompt' = <<SystemMessage(StrContent(enhanced_system(state, cfg)))>>
                                   \o state.messages]_vars

\* C31: need_rag is decided once per invocation: the rag_decision step, the
\* first step of the invocation, writes the flag its node returned, and no
\* later step (generate_query, retrieve, agent, tools) changes it.
C31_NeedRagOnce ==
    [][(path' # path /\ path' # <<>>)
          => /\ pc = "rag_decision"
                   => (path = <<>> /\ state'.need_rag = ret'.need_rag)
             /\ pc # "rag_decision"
                   => (path # <<>> /\ path[1] = "rag_decision"
                       /\ state'.need_rag = state.need_rag
                       /\ (pc' \in {"error", "interrupted"}
                             \/ "need_rag" \notin DOMAIN ret'))]_vars

C31_Witness ==
    /\ state.need_rag
    /\ pc = END
    /\ path = <<"rag_decision", "generate_query", "retrieve", "agent", "tools", "agent">>

\* C32: retrieval is bounded: every retriever call of retrieve_knowledge
\* returns at most top_k documents, so the node returns at most top_k
\* documents per query, and at most 2 * top_k in one invocation.
C32_RetrievalBounded ==
    (LastNode = "retrieve")
    => /\ Len(searches) = Len(state.queries)
       /\ \A i \in 1..Len(searches) : Len(retriever(searches[i]).docs) <= top_k
       /\ Len(ret.retrieved_docs) <= top_k * Len(state.queries)
       /\ Len(state.queries) <= 2
       /\ Len(state.retrieved_docs) <= 2 * top_k

C32_Witness ==
    /\ LastNode = "retrieve"
    /\ Len(state.queries) = 2
    /\ Len(searches[1].docs) > top_k
    /\ Len(searches[2].docs) > top_k
    /\ Len(retriever(searches[1]).docs) = top_k
    /\ state.retrieved_docs # <<>>

\* the number of messages of a kind in a message sequence, assistant
\* messages that request tools left out
Count(msgs, type) ==
    Cardinality({i \in 1..Len(msgs) : msgs[i].type = type /\ msgs[i].tool_calls = <<>>})

\* C33: history is not duplicated: when the caller sends the earlier turns
\* as PreviousMessages, the messages sent to the model at the first model
\* call of an invocation hold each user turn of the conversation once, a
\* request's own turn and no copy of it, and at most one answer per earlier
\* turn, and end with the new user turn.
C33_NoDuplicateHistory ==
    (LastNode = "agent" /\ Cardinality({i \in 1..Len(path) : path[i] = "agent"}) = 1
       /\ prompt # <<>>)
    => LET sent == Tail(prompt)
           requests == Cardinality({i \in 1..Len(sent) : IsNewTurn(sent[i])})
       IN  /\ IsNewTurn(sent[Len(sent)])
           /\ Count(sent, "human") = requests
           /\ Count(sent, "ai") <= requests - 1

\* C34: rag_context and retrieved_docs stay parallel: whatever
\* retrieve_knowledge returns (no queries, documents ranked or not, a
\* failure), the two lists have the same length and rag_context[i] is the
\* page_content of retrieved_docs[i].
C34_ContextParallel ==
    (pc = "node_done" /\ "retrieved_docs" \in DOMAIN ret)
    => /\ DOMAIN ret = {"rag_context", "retrieved_docs"}
       /\ Len(ret.rag_context) = Len(ret.retrieved_docs)
       /\ \A i \in 1..Len(ret.retrieved_docs) :
             ret.rag_context[i] = ret.retrieved_docs[i].page_content

C34_Witness ==
    /\ pc = "node_done"
    /\ Len(ret.retrieved_docs) = 3
    /\ ret.retrieved_docs[1] # Returned[1]
    /\ ret.rag_context[1] # Returned[1].page_content
    /\ adapter.raised = "none"

C36_UploadAllOrNothing ==
    [][api_response'.route = "upload"
          => LET d == api_call'.document_id
             IN  /\ temp_files' = {}
                 /\ api_call'.met # "stored"
                       => /\ document_metadata' = document_metadata
                          /\ api_response'.status = 500
                 /\ api_call'.met = "stored"
                       => /\ api_response'.status = 200
                          /\ api_response'.document_id = d
                          /\ document_metadata'
                                = PutEntry(document_metadata, d,
                                           [chunk_count |-> api_call'.chunks])
                          /\ d \notin DOMAIN document_metadata
                          /\ points'[d] = points[d] + api_call'.chunks]_vars

C36_Witness ==
    /\ api_response.route = "upload"
    /\ api_response.status = 500
    /\ api_call.met = "store_fails"
    /\ points[api_call.document_id] > 0
    /\ api_call.document_id \notin DOMAIN document_metadata
    /\ DOMAIN document_metadata # {}
    /\ temp_files = {}

\* C37: delete_document returns True exactly when the document had chunks in
\* the collection or an entry in document_metadata and the store did not
\* raise; after True the id has no entry and the endpoint answers 200;
\* otherwise document_metadata is unchanged and the endpoint answers 404; a
\* deletion right after a successful deletion of the same id returns False.
C37_Deletion ==
    [][api_response'.route = "delete"
          => LET d == api_call'.document_id
                 had == points[d] > 0 \/ d \in DOMAIN document_metadata
                 raised == \/ api_call'.met = "scroll_raises"
                           \/ points[d] > 0 /\ api_call'.met \in {"delete_raises", "delete_lost"}
                 value == api_response'.status = 200
                 again == /\ api_call.route = "delete"
                          /\ api_call.document_id = d
                          /\ api_response.status = 200
             IN  /\ api_response'.status \in {200, 404}
                 /\ value <=> (had /\ ~raised)
                 /\ value => /\ document_metadata' = DelEntry(document_metadata, d)
                             /\ d \notin DOMAIN document_metadata'
                             /\ points'[d] = 0
                 /\ ~value => document_metadata' = document_metadata
                 /\ again => ~value]_vars

C37_Witness ==
    /\ api_response.route = "delete"
    /\ api_response.status = 200
    /\ api_call.entry
    /\ api_call.chunks > 0
    /\ api_call.document_id \notin DOMAIN document_metadata
    /\ points[api_call.document_id] = 0
    /\ DOMAIN document_metadata # {}

\* C38: when the catalog fetch succeeds and the answer of the language model
\* parses, the suggestion endpoint answers 200 with the catalog entry named
\* by recommended_model_name, or the first entry if no name matches, as the
\* recommended model, and with the other entries named in
\* alternative_model_names as the alternatives.
C38_Suggestion ==
    (/\ pc = "node_done"
     /\ api_call.route = "suggestion"
     /\ api_call.request = "pairs"
     /\ api_call.fetch.met = "ok"
     /\ api_call.fetch.catalog # <<>>
     /\ api_call.analysis.parsed)
    => LET catalog == api_call.fetch.catalog
           answer == api_call.analysis
           named == {i \in 1..Len(catalog) : catalog[i].name = answer.recommended_model_name}
       IN  /\ api_response.status = 200
           /\ api_response.data.recommendedModel
                 \in IF named # {} THEN {catalog[i] : i \in named} ELSE {catalog[1]}
           /\ Range(api_response.data.alternativeModels)
                 = {catalog[i] : i \in {j \in 1..Len(catalog) :
                                           /\ j \notin named
                                           /\ catalog[j].name \in answer.alternative_model_names}}

\* C9: a tools step on an assistant message with n pending calls appends n
\* tool results, the i-th with the id of the i-th call, and changes nothing
\* else of the state.
C9_OneResultPerCall ==
    [][(pc = "tools" /\ pc' = "agent")
          => LET calls == LastMessage(state).tool_calls
                 n == Len(calls)
                 before == Len(state.messages)
             IN  /\ n > 0
                 /\ Len(state'.messages) = before + n
                 /\ SubSeq(state'.messages, 1, before) = state.messages
                 /\ \A i \in 1..n :
                       /\ state'.messages[before + i].type = "tool"
                       /\ state'.messages[before + i].tool_call_id = calls[i].id
                 /\ \A k \in DOMAIN state \ {"messages"} : state'[k] = state[k]]_vars

C9_Witness ==
    /\ LastNode = "tools"
    /\ pc = "agent"
    /\ Len(ret.messages) = 2
    /\ ret.messages[1].tool_call_id # ret.messages[2].tool_call_id

\* calls requested by the assistant messages persisted for a conversation
Requested(c) ==
    { <<i, k>> \in (1..Len(checkpoint[c].messages)) \X (1..MaxCallIds) :
         /\ checkpoint[c].messages[i].type = "ai"
         /\ k <= Len(checkpoint[c].messages[i].tool_calls) }

\* C10: every requested tool call is executed exactly once: no call id runs
\* twice, in one invocation or in a later one of the conversation, and when
\* the agent runs next every call has its tool result.
C10_ExactlyOnce ==
    /\ \A id \in DOMAIN executed : executed[id] <= 1
    /\ \A c \in Conversations : \A r \in Requested(c) :
          LET msgs == checkpoint[c].messages
              id == msgs[r[1]].tool_calls[r[2]].id
              answered == {j \in (r[1] + 1)..Len(msgs) :
                              msgs[j].type = "tool" /\ msgs[j].tool_call_id = id}
          IN  \/ executed[id] = 1 /\ Cardinality(answered) = 1
              \/ /\ executed[id] = 0 /\ answered = {}
                 /\ pc = "tools" /\ cfg.thread_id = c /\ r[1] = Len(msgs)

C10_Witness ==
    /\ invocations = 2
    /\ pc = "agent"
    /\ path = <<"rag_decision">>
    /\ Requested(cfg.thread_id) # {}
    /\ \A id \in DOMAIN executed : executed[id] = 1

=============================================================================
